---------------------------- MODULE Spec2Model ----------------------------
(***************************************************************************)
(* A model of micro-log.h (San7o/micro-log.h): the logger state, the       *)
(* mutators, the write pipeline (_micro_log_write_impl) and the fanout     *)
(* writer (_micro_log_print_outputs_args), in the build with               *)
(* MICRO_LOG_MULTITHREADED and MICRO_LOG_SOCKETS defined.                   *)
(*                                                                         *)
(* Threads call the local ("2") interface on the logger "local"; the       *)
(* process-wide logger micro_log_global is the logger "global".  Every     *)
(* API call is a sequence of steps; a step is atomic, and the steps of     *)
(* different threads interleave freely.                                    *)
(***************************************************************************)
EXTENDS Integers, Sequences, FiniteSets, TLC

(***************************************************************************)
(* Bounds of the model.                                                    *)
(***************************************************************************)
NThreads == 2
MaxCalls == 2
MaxFaults == 2
MaxHandles == 2
MaxFds == 2

(***************************************************************************)
(* Error codes (micro-log.h:159-192).                                      *)
(***************************************************************************)
MICRO_LOG_OK == 0
MICRO_LOG_ERROR_LOGGER_NULL == 1
MICRO_LOG_ERROR_MUTEX_LOCK == 3
MICRO_LOG_ERROR_MUTEX_UNLOCK == 4
MICRO_LOG_ERROR_CLOSE_FILE == 5
MICRO_LOG_ERROR_CLOSE_INET_SOCK == 6
MICRO_LOG_ERROR_CLOSE_UNIX_SOCK == 7
MICRO_LOG_ERROR_OPEN_FILE == 8
MICRO_LOG_ERROR_INET_ADDR_NULL == 9
MICRO_LOG_ERROR_OPEN_INET_SOCK == 10
MICRO_LOG_ERROR_INET_CONNECT == 11
MICRO_LOG_ERROR_VPRINTF_SOCK_INET == 13
MICRO_LOG_ERROR_VPRINTF_SOCK_UNIX == 15
MICRO_LOG_ERROR_VPRINTF_STDOUT == 18
MICRO_LOG_ERROR_VPRINTF_FILE == 19
MICRO_LOG_ERROR_PRINTF_STDOUT == 16
MICRO_LOG_ERROR_PRINTF_FILE == 17
MICRO_LOG_ERROR_INET_ADDR == 21
MICRO_LOG_ERROR_SOCK_PATH_NULL == 22
MICRO_LOG_ERROR_OPEN_UNIX_SOCK == 23
MICRO_LOG_ERROR_UNIX_CONNECT == 24
MICRO_LOG_ERROR_FROM_FILE_NULL == 27
MICRO_LOG_ERROR_INVALID_FILE_SETTING == 28
MICRO_LOG_ERROR_UNKNOWN_LEVEL == 29
MICRO_LOG_ERROR_UNKNOWN_FLAG == 30
MICRO_LOG_ERROR_INVALID_INET_ADDR == 31
MICRO_LOG_ERROR_INVALID_PORT == 32
MICRO_LOG_ERROR_INVALID_PROTOCOL == 33

(***************************************************************************)
(* Flag and sink bits (micro-log.h:209-228), levels (micro-log.h:292-301). *)
(***************************************************************************)
MICRO_LOG_FLAG_NONE == 0
MICRO_LOG_FLAG_LEVEL == 1
MICRO_LOG_FLAG_DATE == 2
MICRO_LOG_FLAG_TIME == 4
MICRO_LOG_FLAG_PID == 8
MICRO_LOG_FLAG_TID == 16
MICRO_LOG_FLAG_JSON == 32
MICRO_LOG_FLAG_COLOR == 64
MICRO_LOG_FLAG_FILE == 128
MICRO_LOG_FLAG_LINE == 256

MICRO_LOG_OUT_STDOUT == 1
MICRO_LOG_OUT_FILE == 2
MICRO_LOG_OUT_SOCK_INET == 4
MICRO_LOG_OUT_SOCK_UNIX == 8

MICRO_LOG_LEVEL_TRACE == 0
MICRO_LOG_LEVEL_DEBUG == 1
MICRO_LOG_LEVEL_INFO == 2
MICRO_LOG_LEVEL_WARN == 3
MICRO_LOG_LEVEL_ERROR == 4
MICRO_LOG_LEVEL_FATAL == 5
MICRO_LOG_LEVEL_DISABLED == 6
_MICRO_LOG_LEVEL_MAX == 7

MICRO_LOG_PROTO_TCP == 0
MICRO_LOG_PROTO_UDP == 1

\* x & bit, for a single-bit mask, as a truth value
HasBit(x, bit) == (x \div bit) % 2 = 1
\* x | bit, for a single-bit mask
SetBit(x, bit) == IF HasBit(x, bit) THEN x ELSE x + bit


(***************************************************************************)
(* printf conversions.                                                     *)
(***************************************************************************)
Digit == <<"0", "1", "2", "3", "4", "5", "6", "7", "8", "9">>

RECURSIVE Dec(_)
\* "%d" of a non-negative int
Dec(n) == IF n < 10 THEN Digit[n + 1] ELSE Dec(n \div 10) \o Digit[(n % 10) + 1]

\* "%02d" of a non-negative int
Dec02(n) == IF n < 10 THEN "0" \o Dec(n) ELSE Dec(n)

RECURSIVE Spaces(_)
Spaces(n) == IF n <= 0 THEN "" ELSE " " \o Spaces(n - 1)

\* "%-5s" that pads nothing
NoPad5(s) == s

\* "%-5s": left-justified in a field of at least 5 characters
PadRight5(s) == s \o Spaces(5 - Len(s))

RECURSIVE Format(_, _)
\* vfprintf of a format given as its pieces, "%s" and "%d" being the
\* conversions, each consuming the next argument
Format(fmt, args) ==
  IF fmt = <<>> THEN ""
  ELSE IF Head(fmt) = "%s" THEN Head(args) \o Format(Tail(fmt), Tail(args))
  ELSE IF Head(fmt) = "%d" THEN Dec(Head(args)) \o Format(Tail(fmt), Tail(args))
  ELSE Head(fmt) \o Format(Tail(fmt), args)

(***************************************************************************)
(* ANSI styles (micro-log.h:230-240).  ESC stands for the byte 0x1B.       *)
(***************************************************************************)
ESC == "^"
MICRO_LOG_RST == ESC \o "[0m"
MICRO_LOG_RED(x) == ESC \o "[31m" \o x \o MICRO_LOG_RST
MICRO_LOG_GRN(x) == ESC \o "[32m" \o x \o MICRO_LOG_RST
MICRO_LOG_YEL(x) == ESC \o "[33m" \o x \o MICRO_LOG_RST
MICRO_LOG_MAG(x) == ESC \o "[35m" \o x \o MICRO_LOG_RST
MICRO_LOG_CYN(x) == ESC \o "[36m" \o x \o MICRO_LOG_RST
MICRO_LOG_BOLD(x) == ESC \o "[1m" \o x \o MICRO_LOG_RST
MICRO_LOG_LGRAY(x) == ESC \o "[90m" \o x \o MICRO_LOG_RST

\* COLOR(x) and COLOR2(x) of _micro_log_write_impl
COLOR(color, x) == IF color THEN MICRO_LOG_LGRAY(x) ELSE x
COLOR2(color, x) == IF color THEN MICRO_LOG_BOLD(x) ELSE x

micro_log_level_string(level, color) ==
  CASE level = MICRO_LOG_LEVEL_TRACE -> IF color THEN MICRO_LOG_MAG("TRACE") ELSE "TRACE"
    [] level = MICRO_LOG_LEVEL_DEBUG -> IF color THEN MICRO_LOG_GRN("DEBUG") ELSE "DEBUG"
    [] level = MICRO_LOG_LEVEL_INFO -> IF color THEN MICRO_LOG_CYN("INFO") ELSE "INFO"
    [] level = MICRO_LOG_LEVEL_WARN -> IF color THEN MICRO_LOG_YEL("WARN") ELSE "WARN"
    [] level = MICRO_LOG_LEVEL_ERROR -> IF color THEN MICRO_LOG_RED("ERROR") ELSE "ERROR"
    [] level = MICRO_LOG_LEVEL_FATAL ->
         IF color THEN MICRO_LOG_BOLD(MICRO_LOG_RED("FATAL")) ELSE "FATAL"
    [] level = MICRO_LOG_LEVEL_DISABLED -> "DISABLED"
    [] OTHER -> "UNKNOWN"

(***************************************************************************)
(* localtime(): a time_t counts the seconds since 2025-01-02 00:00:00      *)
(* local time; the model's clock stays within January 2025.                *)
(***************************************************************************)
localtime(t) ==
  [tm_year |-> 125, tm_mon |-> 0, tm_mday |-> 2 + (t \div 86400),
   tm_hour |-> (t \div 3600) % 24, tm_min |-> (t \div 60) % 60, tm_sec |-> t % 60]

\* "%d-%02d-%02d" of tm_year + 1900, tm_mon + 1, tm_mday
DateString(tm) ==
  Dec(tm.tm_year + 1900) \o "-" \o Dec02(tm.tm_mon + 1) \o "-" \o Dec02(tm.tm_mday)

\* "%02d:%02d:%02d" of tm_hour, tm_min, tm_sec
TimeString(tm) ==
  Dec02(tm.tm_hour) \o ":" \o Dec02(tm.tm_min) \o ":" \o Dec02(tm.tm_sec)

\* getpid()
Pid == 4242
\* pthread_self() of thread t
ThreadId(t) == 7000 + t

(***************************************************************************)
(* The write pipeline as its sequence of print calls.  _micro_log_write_   *)
(* impl makes at most 34 calls of the fanout writer, in this order:        *)
(*    1            "{ "                      if json                       *)
(*    2 + 4(i-1)   the key of field i        if flag i and json            *)
(*    3 + 4(i-1)   the value of field i      if flag i                     *)
(*    4 + 4(i-1)   "\","                     if flag i and json            *)
(*    5 + 4(i-1)   " "                       if flag i                     *)
(*    30           "\"log\": \""             if json                       *)
(*    31           "| "                      if not json and flags > 1     *)
(*    32           the message               (do_print)                    *)
(*    33           "\" }"                    if json                       *)
(*    34           "\n"                                                    *)
(* for the fields i = 1..7 in the order of the code: DATE, TIME, LEVEL,    *)
(* PID, TID, FILE, LINE.                                                   *)
(***************************************************************************)
FieldFlag ==
  <<MICRO_LOG_FLAG_DATE, MICRO_LOG_FLAG_TIME, MICRO_LOG_FLAG_LEVEL, MICRO_LOG_FLAG_PID,
    MICRO_LOG_FLAG_TID, MICRO_LOG_FLAG_FILE, MICRO_LOG_FLAG_LINE>>
FieldKey == <<"date", "time", "log_level", "pid", "tid", "file", "line">>

PP_JSON_OPEN == 1
PP_LOG_KEY == 30
PP_SEPARATOR == 31
PP_MESSAGE == 32
PP_JSON_CLOSE == 33
PP_NEWLINE == 34
PP_END == 35

IsFieldPoint(pp) == pp > PP_JSON_OPEN /\ pp < PP_LOG_KEY
FieldOf(pp) == ((pp - 2) \div 4) + 1
PartOf(pp) == ((pp - 2) % 4) + 1

\* a pipeline that leaves a JSON object without the newline after it
PointEnabledNoJsonNewline(pp, flags, json) ==
  CASE pp = PP_JSON_OPEN -> json
    [] IsFieldPoint(pp) ->
         /\ HasBit(flags, FieldFlag[FieldOf(pp)])
         /\ (PartOf(pp) \in {1, 3} => json)
    [] pp = PP_LOG_KEY -> json
    [] pp = PP_SEPARATOR -> ~json /\ flags > 1
    [] pp = PP_JSON_CLOSE -> json
    [] pp = PP_NEWLINE -> ~json
    [] OTHER -> TRUE

\* a pipeline that renders every metadata field, enabled or not
PointEnabledAllFields(pp, flags, json) ==
  CASE pp = PP_JSON_OPEN -> json
    [] IsFieldPoint(pp) -> PartOf(pp) \in {1, 3} => json
    [] pp = PP_LOG_KEY -> json
    [] pp = PP_SEPARATOR -> ~json /\ flags > 1
    [] pp = PP_JSON_CLOSE -> json
    [] OTHER -> TRUE

\* whether the print call at pp is executed, for the flags of the logger
\* and the local json
PointEnabled(pp, flags, json) ==
  CASE pp = PP_JSON_OPEN -> json
    [] IsFieldPoint(pp) ->
         /\ HasBit(flags, FieldFlag[FieldOf(pp)])
         /\ (PartOf(pp) \in {1, 3} => json)
    [] pp = PP_LOG_KEY -> json
    [] pp = PP_SEPARATOR -> ~json /\ flags > 1
    [] pp = PP_JSON_CLOSE -> json
    [] OTHER -> TRUE

RECURSIVE NextPoint(_, _, _)
\* the first print call executed at or after pp
NextPoint(pp, flags, json) ==
  IF pp >= PP_END \/ PointEnabled(pp, flags, json) THEN pp
  ELSE NextPoint(pp + 1, flags, json)

\* the value of field i; w holds the arguments and locals of the call, t
\* is the time(NULL) sampled for the field
FieldValue(i, w, t) ==
  CASE i = 1 -> COLOR(w.color, DateString(localtime(t)))
    [] i = 2 -> COLOR(w.color, TimeString(localtime(t)))
    [] i = 3 -> PadRight5(micro_log_level_string(w.level, w.color))
    [] i = 4 -> COLOR(w.color, Dec(Pid))
    [] i = 5 -> COLOR(w.color, Dec(ThreadId(w.tid)))
    [] i = 6 -> COLOR(w.color, w.file)
    [] OTHER -> COLOR(w.color, Dec(w.line))

\* the text the print call at pp hands to the fanout writer
PointText(pp, w, t) ==
  CASE pp = PP_JSON_OPEN -> "{ "
    [] IsFieldPoint(pp) /\ PartOf(pp) = 1 -> "\"" \o FieldKey[FieldOf(pp)] \o "\": \""
    [] IsFieldPoint(pp) /\ PartOf(pp) = 2 -> FieldValue(FieldOf(pp), w, t)
    [] IsFieldPoint(pp) /\ PartOf(pp) = 3 -> "\","
    [] IsFieldPoint(pp) /\ PartOf(pp) = 4 -> " "
    [] pp = PP_LOG_KEY -> "\"log\": \""
    [] pp = PP_SEPARATOR -> COLOR2(w.color, "| ")
    [] pp = PP_MESSAGE -> Format(w.fmt, w.args)
    [] pp = PP_JSON_CLOSE -> "\" }"
    [] OTHER -> "\n"

\* whether the print call at pp samples the clock (time(NULL), lines 1316, 1340)
SamplesClock(pp) == IsFieldPoint(pp) /\ PartOf(pp) = 2 /\ FieldOf(pp) \in {1, 2}

(***************************************************************************)
(* State.                                                                  *)
(*   micro_log  the MicroLog struct of each logger (micro-log.h:315-340);  *)
(*              write_mutex is the thread that holds it, 0 when free       *)
(*   stdout     what was written to the process's standard output          *)
(*   files      the FILE objects of the C library: whether open, and the   *)
(*              content written through it since fopen(.., "w+")           *)
(*   fds        the socket descriptors of the process: whether open and    *)
(*              connected, who created it, and what was sent on it         *)
(*   th         per thread: the API call it is in and the locals of that   *)
(*              call (w: the locals of _micro_log_write_impl)              *)
(*   now        the last value time(NULL) returned (see localtime)         *)
(*   faults     the number of failures of library calls so far             *)
(*   events     what happened that the C standard or POSIX leaves          *)
(*              undefined or that touched a resource not attached          *)
(*   crashed    the process was killed by a fault (SIGSEGV)                *)
(***************************************************************************)
VARIABLES micro_log, stdout, files, fds, th, now, faults, events, crashed

vars == <<micro_log, stdout, files, fds, th, now, faults, events, crashed>>

Loggers == {"local", "global"}
Threads == 1..NThreads
Handles == 1..MaxHandles
Fds == 3..(2 + MaxFds)
NULL == 0

SinkBits ==
  {MICRO_LOG_OUT_STDOUT, MICRO_LOG_OUT_FILE, MICRO_LOG_OUT_SOCK_INET, MICRO_LOG_OUT_SOCK_UNIX}

\* The environment of one call of the fanout writer is a record env:
\* env.fail is the sink whose write fails (0: none), env.ub what a write
\* through a closed or null stream does ("fail", "crash" or "lost").

\* a usable socket descriptor of the logger: open, connected and its own
SocketAttached(f, fd, lg, kind) ==
  /\ fd \in Fds
  /\ f[fd].open
  /\ f[fd].connected
  /\ f[fd].owner = <<lg, kind>>

\* a descriptor write(2) accepts, whoever owns it
SocketWritable(f, fd) == fd \in Fds /\ f[fd].open /\ f[fd].connected

(***************************************************************************)
(* _micro_log_print_outputs_args (micro-log.h:1512-1572): the four blocks, *)
(* each on the state its predecessor left.  s carries the sinks, the error *)
(* local, and whether the environment's choices were used.                 *)
(***************************************************************************)
PrintStdout(ml, s, frag, env) ==
  IF ~HasBit(ml.out_bitfield, MICRO_LOG_OUT_STDOUT) THEN s
  ELSE IF env.fail = MICRO_LOG_OUT_STDOUT
    THEN [s EXCEPT !.error = MICRO_LOG_ERROR_PRINTF_STDOUT, !.injected = TRUE,
                   !.tried = Append(@, MICRO_LOG_OUT_STDOUT)]
    ELSE [s EXCEPT !.stdout = Append(@, frag), !.tried = Append(@, MICRO_LOG_OUT_STDOUT)]

PrintFileTo(ml, s, frag, env) ==
  IF ml.file = NULL
    THEN \* vfprintf(NULL, ..): undefined
         IF env.ub = "crash"
           THEN [s EXCEPT !.crashed = TRUE, !.usedUb = TRUE,
                          !.events = @ \cup {"write_file_null"}]
           ELSE [s EXCEPT !.error = MICRO_LOG_ERROR_PRINTF_FILE, !.usedUb = TRUE,
                          !.events = @ \cup {"write_file_null"}]
  ELSE IF ~s.files[ml.file].open
    THEN \* vfprintf on a stream that was closed: undefined
         CASE env.ub = "crash" ->
                [s EXCEPT !.crashed = TRUE, !.usedUb = TRUE,
                          !.events = @ \cup {"write_file_closed"}]
           [] env.ub = "fail" ->
                [s EXCEPT !.error = MICRO_LOG_ERROR_PRINTF_FILE, !.usedUb = TRUE,
                          !.events = @ \cup {"write_file_closed"}]
           [] OTHER ->
                [s EXCEPT !.usedUb = TRUE, !.events = @ \cup {"write_file_closed"}]
  ELSE IF env.fail = MICRO_LOG_OUT_FILE
    THEN [s EXCEPT !.error = MICRO_LOG_ERROR_PRINTF_FILE, !.injected = TRUE]
    ELSE [s EXCEPT !.files[ml.file].data = Append(@, frag)]

PrintFile(ml, s, frag, env) ==
  IF s.error # MICRO_LOG_OK \/ ~HasBit(ml.out_bitfield, MICRO_LOG_OUT_FILE) THEN s
  ELSE PrintFileTo(ml, [s EXCEPT !.tried = Append(@, MICRO_LOG_OUT_FILE)], frag, env)

\* vdprintf on a socket descriptor; bit, kind, fd and err are those of the block
PrintSocketTo(lg, s, frag, env, bit, kind, fd, err) ==
  IF SocketWritable(s.fds, fd)
    THEN LET e == IF s.fds[fd].owner = <<lg, kind>> THEN s.events
                  ELSE s.events \cup {"write_" \o kind \o "_foreign"}
         IN IF env.fail = bit
              THEN [s EXCEPT !.error = err, !.injected = TRUE, !.events = e]
              ELSE [s EXCEPT !.fds[fd].data = Append(@, frag), !.events = e]
  ELSE IF fd = 0
    THEN \* descriptor 0 is the standard input of the process: the write
         \* fails or goes to whatever it is open on
         IF env.ub = "lost"
           THEN [s EXCEPT !.usedUb = TRUE,
                          !.events = @ \cup {"write_" \o kind \o "_unattached"}]
           ELSE [s EXCEPT !.error = err, !.usedUb = env.ub = "fail",
                          !.events = @ \cup {"write_" \o kind \o "_unattached"}]
  ELSE \* EBADF, ENOTCONN
       [s EXCEPT !.error = err, !.events = @ \cup {"write_" \o kind \o "_unattached"}]

PrintSocket(lg, s, frag, env, enabled, bit, kind, fd, err) ==
  IF s.error # MICRO_LOG_OK \/ s.crashed \/ ~enabled THEN s
  ELSE PrintSocketTo(lg, [s EXCEPT !.tried = Append(@, bit)], frag, env, bit, kind, fd, err)

PrintInet(lg, ml, s, frag, env) ==
  PrintSocket(lg, s, frag, env, HasBit(ml.out_bitfield, MICRO_LOG_OUT_SOCK_INET),
              MICRO_LOG_OUT_SOCK_INET, "inet", ml.inet_sock_fd,
              MICRO_LOG_ERROR_VPRINTF_SOCK_INET)

PrintUnix(lg, ml, s, frag, env) ==
  PrintSocket(lg, s, frag, env, HasBit(ml.out_bitfield, MICRO_LOG_OUT_SOCK_UNIX),
              MICRO_LOG_OUT_SOCK_UNIX, "unix", ml.unix_sock_fd,
              MICRO_LOG_ERROR_VPRINTF_SOCK_INET)

\* a fanout writer that serves the internet socket before the file
FanoutSocketBeforeFile(lg, ml, s, frag, env) ==
  LET s1 == PrintStdout(ml, s, frag, env)
      s2 == PrintInet(lg, ml, s1, frag, env)
      s3 == PrintFile(ml, s2, frag, env)
  IN PrintUnix(lg, ml, s3, frag, env)

_micro_log_print_outputs_args(lg, ml, s, frag, env) ==
  LET s1 == PrintStdout(ml, s, frag, env)
      s2 == PrintFile(ml, s1, frag, env)
      s3 == PrintInet(lg, ml, s2, frag, env)
  IN PrintUnix(lg, ml, s3, frag, env)

\* the sinks as the fanout writer's working state; events are those of the call
SinkState ==
  [stdout |-> stdout, files |-> files, fds |-> fds, events |-> {},
   crashed |-> crashed, error |-> MICRO_LOG_OK, injected |-> FALSE, usedUb |-> FALSE,
   tried |-> <<>>]

(***************************************************************************)
(* Inputs of the model.                                                    *)
(***************************************************************************)
\* the values time(NULL) takes: the two sides of a midnight
ClockValues == {86399, 86400}
\* levels handed to micro_log_write2: the enum's values and one beyond
WriteLevels == {MICRO_LOG_LEVEL_TRACE, MICRO_LOG_LEVEL_FATAL, MICRO_LOG_LEVEL_DISABLED}
\* levels handed to micro_log_set_level2
SetLevels == {MICRO_LOG_LEVEL_INFO, MICRO_LOG_LEVEL_DISABLED, _MICRO_LOG_LEVEL_MAX + 1}
\* flags handed to micro_log_set_flags2, and those main() may have set
FlagChoices ==
  {MICRO_LOG_FLAG_NONE,
   MICRO_LOG_FLAG_LEVEL + MICRO_LOG_FLAG_DATE + MICRO_LOG_FLAG_TIME,
   MICRO_LOG_FLAG_JSON + MICRO_LOG_FLAG_COLOR + MICRO_LOG_FLAG_LEVEL}
\* protocol and address handed to micro_log_set_socket_inet2: the enum's
\* values and one beyond, an address inet_pton accepts and one it rejects
InetArgs ==
  {[protocol |-> MICRO_LOG_PROTO_TCP, addrOk |-> TRUE],
   [protocol |-> MICRO_LOG_PROTO_UDP, addrOk |-> FALSE],
   [protocol |-> 2, addrOk |-> TRUE]}
\* sink sets handed to micro_log_set_out2
OutChoices ==
  {MICRO_LOG_OUT_STDOUT + MICRO_LOG_OUT_FILE,
   MICRO_LOG_OUT_SOCK_INET + MICRO_LOG_OUT_SOCK_UNIX}

(***************************************************************************)
(* Threads.  pc is where the thread stands:                                *)
(*   idle    in no API call (ret is what the last call returned)           *)
(*   w_lock  _micro_log_write_impl, before __MICRO_LOG_LOCK (line 1279)    *)
(*   w_emit  _micro_log_write_impl, before its next print call             *)
(*   w_done  _micro_log_write_impl, at done: (line 1489)                   *)
(*   m_lock  a mutator, before __MICRO_LOG_LOCK                            *)
(*   m_body  a mutator, between its lock and done:                         *)
(*   m_done  a mutator, at done:                                           *)
(*   m_log   a mutator, after its unlock, before the record it logs        *)
(* Besides the arguments and locals of the call, the records keep its      *)
(* history: rec (the thread and the number of its call, which names the    *)
(* record in the sinks), seen (the threshold the gate read), gated, locked *)
(* (the lock succeeded), unlocks (the successful unlocks), first (the      *)
(* first error of the call), and of the last call of the fanout writer:    *)
(* last (the fragment), tried (the sinks it attempted, in order) and wild  *)
(* (a write of the record went through a resource that is not attached).   *)
(* spin is the parity of the jumps from a failed unlock back to done: that *)
(* the call has made.                                                      *)
(***************************************************************************)
NoWrite ==
  [lg |-> "local", level |-> 0, file |-> "", line |-> 0, fmt |-> <<>>, args |-> <<>>,
   tid |-> 0, json |-> FALSE, color |-> FALSE, pp |-> 0, error |-> MICRO_LOG_OK,
   cont |-> "return", rec |-> <<0, 0>>, gated |-> FALSE, locked |-> FALSE,
   unlocks |-> 0, first |-> MICRO_LOG_OK, seen |-> 0, tried |-> <<>>, wild |-> FALSE,
   last |-> [rec |-> <<0, 0>>, pp |-> 0, txt |-> ""]]

\* the locals of micro_log_from_file2: the logger, the lines of the file,
\* the number of the line at hand, error, whether the settings file is
\* open; and its history: snap, the loggers and their resources as they
\* were when the line at hand was read, and after, the levels of the records
\* written since the load
NoParse ==
  [active |-> FALSE, lg |-> "local", lines |-> <<>>, ln |-> 0, error |-> MICRO_LOG_OK,
   open |-> FALSE, snap |-> <<>>, after |-> <<>>]

IdleThread ==
  [pc |-> "idle", op |-> "none", lg |-> "local", arg |-> 0, error |-> MICRO_LOG_OK,
   ret |-> MICRO_LOG_OK, calls |-> 0, locked |-> FALSE, unlocks |-> 0,
   first |-> MICRO_LOG_OK, spin |-> 0, w |-> NoWrite, p |-> NoParse]

\* where a call returns to: the caller of the API, or micro_log_from_file2
ReturnPc(r) == IF r.p.active THEN "f_ret" ELSE "idle"

\* the thread record r when its call of _micro_log_write_impl returns werr:
\* micro_log_write2 hands werr to the caller, the mutators drop it
WriteReturn(r, werr) ==
  IF r.w.cont = "m_lock" THEN [r EXCEPT !.pc = "m_lock"]
  ELSE [r EXCEPT !.pc = ReturnPc(r),
                 !.ret = IF r.op = "write" THEN werr ELSE r.error]

\* a gate that forgets the test for DISABLED
GatedBelowOnly(level, threshold) == level < threshold

\* the severity gate (micro-log.h:1273-1275)
Gated(level, threshold) ==
  level < threshold \/ threshold = MICRO_LOG_LEVEL_DISABLED

\* the thread record r of thread t on entering _micro_log_write_impl
\* (micro-log.h:1271-1277); the logger is never NULL here
EnterWrite(r, t, lg, level, file, line, fmt, args, cont) ==
  LET w == [NoWrite EXCEPT !.lg = lg, !.level = level, !.file = file, !.line = line,
                           !.fmt = fmt, !.args = args, !.tid = t, !.cont = cont,
                           !.rec = <<t, r.calls>>, !.seen = micro_log[lg].log_level]
  IN IF Gated(level, micro_log[lg].log_level)
       THEN WriteReturn([r EXCEPT !.w = [w EXCEPT !.gated = TRUE]], MICRO_LOG_OK)
       ELSE [r EXCEPT !.w = w, !.pc = "w_lock"]

\* the thread record of a thread beginning the API call op on logger lg
BeginCall(r, op, lg, arg) ==
  [r EXCEPT !.op = op, !.lg = lg, !.arg = arg, !.calls = @ + 1,
            !.error = MICRO_LOG_OK, !.locked = FALSE, !.unlocks = 0,
            !.first = MICRO_LOG_OK, !.spin = 0, !.w = NoWrite]

CanCall(t) == ~crashed /\ th[t].pc = "idle" /\ th[t].calls < MaxCalls

\* micro_log_write2(&local, level, "t%d r%d", t, n) at example.c:29
CallWrite(t, level) ==
  /\ CanCall(t)
  /\ th' = [th EXCEPT ![t] =
              LET r == BeginCall(@, "write", "local", level)
              IN EnterWrite(r, t, "local", level, "example.c", 29,
                            <<"t", "%d", " r", "%d">>, <<t, r.calls>>, "return")]
  /\ UNCHANGED <<micro_log, stdout, files, fds, now, faults, events, crashed>>

(***************************************************************************)
(* __MICRO_LOG_LOCK (micro-log.h:524-531).  pthread_mutex_lock blocks      *)
(* while another thread holds the mutex; it may fail.                      *)
(***************************************************************************)
LockAcquire(lg, t) ==
  /\ micro_log[lg].write_mutex = 0
  /\ micro_log' = [micro_log EXCEPT ![lg].write_mutex = t]

WriteLock(t) ==
  /\ ~crashed
  /\ th[t].pc = "w_lock"
  /\ LockAcquire(th[t].w.lg, t)
  /\ th' = [th EXCEPT ![t].pc = "w_emit", ![t].w.locked = TRUE]
  /\ UNCHANGED <<stdout, files, fds, now, faults, events, crashed>>

WriteLockFail(t) ==
  /\ ~crashed
  /\ th[t].pc = "w_lock"
  /\ faults < MaxFaults
  /\ faults' = faults + 1
  /\ th' = [th EXCEPT ![t].pc = "w_done",
                      ![t].w.error = MICRO_LOG_ERROR_MUTEX_LOCK,
                      ![t].w.first = MICRO_LOG_ERROR_MUTEX_LOCK]
  /\ UNCHANGED <<micro_log, stdout, files, fds, now, events, crashed>>

(***************************************************************************)
(* _micro_log_write_impl between its lock and done: (micro-log.h:          *)
(* 1285-1487).  One step is one print call: the flag tests that lead to    *)
(* it, the call of the fanout writer, and CHECK_ERROR.  The first step     *)
(* also sets the locals json and color (lines 1286-1303).                  *)
(***************************************************************************)
\* the locals json and color once lines 1286-1303 have run
JsonLocal(w, flags) ==
  IF w.pp = 0 THEN flags # MICRO_LOG_FLAG_NONE /\ HasBit(flags, MICRO_LOG_FLAG_JSON)
  ELSE w.json

\* a pipeline in which JSON leaves the color on
ColorLocalWithJson(w, flags) ==
  IF w.pp = 0
    THEN flags # MICRO_LOG_FLAG_NONE /\ HasBit(flags, MICRO_LOG_FLAG_COLOR)
  ELSE w.color

ColorLocal(w, flags) ==
  IF w.pp = 0
    THEN /\ flags # MICRO_LOG_FLAG_NONE
         /\ HasBit(flags, MICRO_LOG_FLAG_COLOR)
         /\ ~HasBit(flags, MICRO_LOG_FLAG_JSON)
  ELSE w.color

\* where the step starts looking for its print call
StartPoint(w, flags) ==
  IF w.pp = 0
    THEN IF flags = MICRO_LOG_FLAG_NONE THEN PP_MESSAGE ELSE PP_JSON_OPEN
  ELSE w.pp

\* the failures the environment may choose for one call of the fanout
\* writer: none, or (within the fault budget) the write to one sink
FailChoices == IF faults < MaxFaults THEN SinkBits \cup {0} ELSE {0}

\* the values time(NULL) may return now
ClockChoices(pp) ==
  IF SamplesClock(pp) THEN {c \in ClockValues \cup {now} : c >= now} ELSE {now}

\* one print call of thread t: the call at pp with the locals w0, the clock
\* reading clock and the environment env; final: no print call follows it
EmitStep(t, w0, pp, final, clock, env) ==
  \E frag \in {[rec |-> w0.rec, pp |-> pp, txt |-> PointText(pp, w0, clock)]} :
  \E s \in {_micro_log_print_outputs_args(w0.lg, micro_log[w0.lg], SinkState, frag, env)} :
  \E w \in {[w0 EXCEPT !.tried = s.tried, !.last = frag,
                        !.wild = @ \/ s.events # {}]} :
    /\ s.injected = (env.fail # 0)
    /\ s.usedUb \/ env.ub = "fail"
    /\ now' = clock
    /\ faults' = IF s.injected THEN faults + 1 ELSE faults
    /\ stdout' = s.stdout
    /\ files' = s.files
    /\ fds' = s.fds
    /\ events' = events \cup s.events
    /\ crashed' = s.crashed
    /\ th' = [th EXCEPT ![t].w =
                IF s.crashed THEN [w EXCEPT !.pp = pp]
                ELSE IF s.error # MICRO_LOG_OK
                  THEN [w EXCEPT !.pp = pp, !.error = s.error, !.first = s.error]
                ELSE [w EXCEPT !.pp = pp + 1],
                        ![t].pc =
                IF s.crashed THEN "w_emit"
                ELSE IF s.error # MICRO_LOG_OK \/ final THEN "w_done"
                ELSE "w_emit"]

WriteEmit(t) ==
  /\ ~crashed
  /\ th[t].pc = "w_emit"
  /\ \E flags \in {micro_log[th[t].w.lg].flags_bitfield} :
       \E w \in {[th[t].w EXCEPT !.json = JsonLocal(th[t].w, flags),
                                 !.color = ColorLocal(th[t].w, flags)]} :
         \E pp \in {NextPoint(StartPoint(th[t].w, flags), flags, w.json)} :
           \E final \in {NextPoint(pp + 1, flags, w.json) >= PP_END} :
             \E clock \in ClockChoices(pp), fail \in FailChoices,
                ub \in {"fail", "crash", "lost"} :
               EmitStep(t, w, pp, final, clock, [fail |-> fail, ub |-> ub])
  /\ UNCHANGED micro_log

(***************************************************************************)
(* __MICRO_LOG_UNLOCK (micro-log.h:532-539).  Unlocking a mutex the thread *)
(* does not hold is undefined for the default mutex type: it fails, or it  *)
(* releases the mutex whoever holds it.  A failed unlock sets error and    *)
(* jumps to done:, which is the unlock again.                              *)
(***************************************************************************)
UnlockHeld(lg, t) == micro_log[lg].write_mutex = t

\* the events of an unlock by thread t
UnlockEvents(lg, t) ==
  IF UnlockHeld(lg, t) THEN events ELSE events \cup {"unlock_unheld"}

WriteUnlock(t) ==
  /\ ~crashed
  /\ th[t].pc = "w_done"
  /\ micro_log' = [micro_log EXCEPT ![th[t].w.lg].write_mutex = 0]
  /\ events' = UnlockEvents(th[t].w.lg, t)
  /\ th' = [th EXCEPT ![t] =
              WriteReturn([@ EXCEPT !.w.unlocks = @ + 1], @.w.error)]
  /\ UNCHANGED <<stdout, files, fds, now, faults, crashed>>

WriteUnlockFail(t) ==
  /\ ~crashed
  /\ th[t].pc = "w_done"
  /\ UnlockHeld(th[t].w.lg, t) => faults < MaxFaults
  /\ faults' = IF UnlockHeld(th[t].w.lg, t) THEN faults + 1 ELSE faults
  /\ events' = UnlockEvents(th[t].w.lg, t)
  /\ th' = [th EXCEPT ![t].w.error = MICRO_LOG_ERROR_MUTEX_UNLOCK,
                      ![t].w.first = IF @ = MICRO_LOG_OK
                                       THEN MICRO_LOG_ERROR_MUTEX_UNLOCK ELSE @,
                      ![t].spin = 1 - @]
  /\ UNCHANGED <<micro_log, stdout, files, fds, now, crashed>>

(***************************************************************************)
(* The mutators.  Each one checks its arguments, takes the lock, runs its  *)
(* body, and unlocks at done:.                                             *)
(***************************************************************************)
\* micro_log_set_level2 (micro-log.h:1019-1031)
CallSetLevel(t, level) ==
  /\ CanCall(t)
  /\ th' = [th EXCEPT ![t] =
              LET r == BeginCall(@, "set_level", "local", level)
              IN IF level > _MICRO_LOG_LEVEL_MAX
                   THEN [r EXCEPT !.ret = MICRO_LOG_ERROR_UNKNOWN_LEVEL]
                   ELSE [r EXCEPT !.pc = "m_lock"]]
  /\ UNCHANGED <<micro_log, stdout, files, fds, now, faults, events, crashed>>

\* micro_log_set_flags2 (micro-log.h:1000-1009)
CallSetFlags(t, flags) ==
  /\ CanCall(t)
  /\ th' = [th EXCEPT ![t] =
              [BeginCall(@, "set_flags", "local", flags) EXCEPT !.pc = "m_lock"]]
  /\ UNCHANGED <<micro_log, stdout, files, fds, now, faults, events, crashed>>

\* micro_log_set_out2 (micro-log.h:1045-1052)
CallSetOut(t, out) ==
  /\ CanCall(t)
  /\ th' = [th EXCEPT ![t] =
              [BeginCall(@, "set_out", "local", out) EXCEPT !.pc = "m_lock"]]
  /\ UNCHANGED <<micro_log, stdout, files, fds, now, faults, events, crashed>>

\* micro_log_set_file2 (micro-log.h:1062-1070)
CallSetFile(t) ==
  /\ CanCall(t)
  /\ th' = [th EXCEPT ![t] =
              [BeginCall(@, "set_file", "local", "out") EXCEPT !.pc = "m_lock"]]
  /\ UNCHANGED <<micro_log, stdout, files, fds, now, faults, events, crashed>>

\* micro_log_set_socket_inet2 (micro-log.h:1105-1118); addr is not NULL,
\* addrOk is whether inet_pton accepts it
CallSetSocketInet(t, protocol, addrOk) ==
  /\ CanCall(t)
  /\ th' = [th EXCEPT ![t] =
              [BeginCall(@, "set_socket_inet", "local",
                         [protocol |-> protocol, addrOk |-> addrOk])
                 EXCEPT !.pc = "m_lock"]]
  /\ UNCHANGED <<micro_log, stdout, files, fds, now, faults, events, crashed>>

\* micro_log_set_socket_unix2 (micro-log.h:1181-1191); path is not NULL
CallSetSocketUnix(t) ==
  /\ CanCall(t)
  /\ th' = [th EXCEPT ![t] =
              [BeginCall(@, "set_socket_unix", "local", "/tmp/my-unix-socket")
                 EXCEPT !.pc = "m_lock"]]
  /\ UNCHANGED <<micro_log, stdout, files, fds, now, faults, events, crashed>>

\* micro_log_close2 (micro-log.h:915-922): it logs "Closing logger" first
CallClose(t) ==
  /\ CanCall(t)
  /\ th' = [th EXCEPT ![t] =
              EnterWrite(BeginCall(@, "close", "local", 0), t, "local",
                         MICRO_LOG_LEVEL_INFO, "micro-log.h", 922,
                         <<"Closing logger">>, <<>>, "m_lock")]
  /\ UNCHANGED <<micro_log, stdout, files, fds, now, faults, events, crashed>>

MutatorLock(t) ==
  /\ ~crashed
  /\ th[t].pc = "m_lock"
  /\ LockAcquire(th[t].lg, t)
  /\ th' = [th EXCEPT ![t].pc = "m_body", ![t].locked = TRUE]
  /\ UNCHANGED <<stdout, files, fds, now, faults, events, crashed>>

MutatorLockFail(t) ==
  /\ ~crashed
  /\ th[t].pc = "m_lock"
  /\ faults < MaxFaults
  /\ faults' = faults + 1
  /\ th' = [th EXCEPT ![t].pc = "m_done",
                      ![t].error = MICRO_LOG_ERROR_MUTEX_LOCK,
                      ![t].first = MICRO_LOG_ERROR_MUTEX_LOCK]
  /\ UNCHANGED <<micro_log, stdout, files, fds, now, events, crashed>>

\* the thread record r with the mutator's error local set on its way to done:
Fail(r, err) == [r EXCEPT !.pc = "m_done", !.error = err, !.first = err]
Done(r) == [r EXCEPT !.pc = "m_done"]

InBody(t, op) == ~crashed /\ th[t].pc = "m_body" /\ th[t].op = op

SetLevelBody(t) ==
  /\ InBody(t, "set_level")
  /\ micro_log' = [micro_log EXCEPT ![th[t].lg].log_level = th[t].arg]
  /\ th' = [th EXCEPT ![t] = Done(@)]
  /\ UNCHANGED <<stdout, files, fds, now, faults, events, crashed>>

SetFlagsBody(t) ==
  /\ InBody(t, "set_flags")
  /\ micro_log' = [micro_log EXCEPT ![th[t].lg].flags_bitfield = th[t].arg]
  /\ th' = [th EXCEPT ![t] = Done(@)]
  /\ UNCHANGED <<stdout, files, fds, now, faults, events, crashed>>

\* a micro_log_set_out2 that adds the sinks to those enabled
SetOutBodyUnion(t) ==
  /\ InBody(t, "set_out")
  /\ micro_log' = [micro_log EXCEPT
                     ![th[t].lg].out_bitfield =
                       LET on(b) == IF HasBit(@, b) \/ HasBit(th[t].arg, b) THEN b ELSE 0
                       IN on(MICRO_LOG_OUT_STDOUT) + on(MICRO_LOG_OUT_FILE)
                            + on(MICRO_LOG_OUT_SOCK_INET) + on(MICRO_LOG_OUT_SOCK_UNIX)]
  /\ th' = [th EXCEPT ![t] = Done(@)]
  /\ UNCHANGED <<stdout, files, fds, now, faults, events, crashed>>

SetOutBody(t) ==
  /\ InBody(t, "set_out")
  /\ micro_log' = [micro_log EXCEPT ![th[t].lg].out_bitfield = th[t].arg]
  /\ th' = [th EXCEPT ![t] = Done(@)]
  /\ UNCHANGED <<stdout, files, fds, now, faults, events, crashed>>

(***************************************************************************)
(* fclose(h) on a stream pointer that is not NULL.  c is what the          *)
(* environment decides: "ok", "fail" (fclose returns EOF; the stream is    *)
(* closed all the same) or "crash".  Closing a stream that is already      *)
(* closed is undefined: any of the three.  The result is the files, the    *)
(* events, and what fclose did.                                            *)
(***************************************************************************)
FcloseChoices(f, h) ==
  IF f[h].open THEN (IF faults < MaxFaults THEN {"ok", "fail"} ELSE {"ok"})
  ELSE {"ok", "fail", "crash"}

Fclose(f, e, h, c) ==
  [files |-> [f EXCEPT ![h].open = FALSE],
   events |-> IF f[h].open THEN e ELSE e \cup {"fclose_closed"},
   injected |-> f[h].open /\ c = "fail",
   result |-> c]

\* fopen(filename, "w+"): a FILE object that is not open, its content
\* truncated; NULL when the environment makes it fail or none is left
FopenChoices(f) ==
  {h \in Handles : ~f[h].open} \cup
    (IF faults < MaxFaults \/ \A h \in Handles : f[h].open THEN {NULL} ELSE {})

\* the result of a mutator's body: the logger, the resources, the error
\* local, and how many failures the environment injected
BodyResult(ml, f, d, ev, err, crash, n) ==
  [ml |-> ml, files |-> f, fds |-> d, events |-> ev, error |-> err, crashed |-> crash,
   injected |-> n]

\* a micro_log_set_file2 that makes the file the only enabled sink
SetFileResultOnlyFile(ml, f, d, ev, c, h, name) ==
  LET cl == IF ml.file = NULL
              THEN [files |-> f, events |-> ev, injected |-> FALSE, result |-> "ok"]
              ELSE Fclose(f, ev, ml.file, c)
      n == IF cl.injected THEN 1 ELSE 0
  IN IF cl.result = "crash"
       THEN BodyResult(ml, cl.files, d, cl.events, MICRO_LOG_OK, TRUE, n)
     ELSE IF cl.result = "fail"
       THEN BodyResult(ml, cl.files, d, cl.events, MICRO_LOG_ERROR_CLOSE_FILE, FALSE, n)
     ELSE IF h = NULL
       THEN BodyResult(ml, cl.files, d, cl.events, MICRO_LOG_ERROR_OPEN_FILE, FALSE,
                       IF \E x \in Handles : ~cl.files[x].open THEN 1 ELSE 0)
     ELSE BodyResult([ml EXCEPT !.out_bitfield = MICRO_LOG_OUT_FILE, !.file = h],
                     [cl.files EXCEPT ![h] = [open |-> TRUE, data |-> <<>>,
                                              name |-> name]],
                     d, cl.events, MICRO_LOG_OK, FALSE, 0)

\* micro_log_set_file2 between its lock and done: (micro-log.h:1072-1091);
\* c is what fclose does, h what fopen(name, "w+") returns
SetFileResult(ml, f, d, ev, c, h, name) ==
  LET cl == IF ml.file = NULL
              THEN [files |-> f, events |-> ev, injected |-> FALSE, result |-> "ok"]
              ELSE Fclose(f, ev, ml.file, c)
      n == IF cl.injected THEN 1 ELSE 0
  IN IF cl.result = "crash"
       THEN BodyResult(ml, cl.files, d, cl.events, MICRO_LOG_OK, TRUE, n)
     ELSE IF cl.result = "fail"
       THEN BodyResult(ml, cl.files, d, cl.events, MICRO_LOG_ERROR_CLOSE_FILE, FALSE, n)
     ELSE IF h = NULL
       THEN BodyResult(ml, cl.files, d, cl.events, MICRO_LOG_ERROR_OPEN_FILE, FALSE,
                       IF \E x \in Handles : ~cl.files[x].open THEN 1 ELSE 0)
     ELSE BodyResult([ml EXCEPT !.out_bitfield = SetBit(@, MICRO_LOG_OUT_FILE),
                                !.file = h],
                     [cl.files EXCEPT ![h] = [open |-> TRUE, data |-> <<>>,
                                              name |-> name]],
                     d, cl.events, MICRO_LOG_OK, FALSE, 0)

\* the step of a mutator's body with result r
ApplyBody(t, r) ==
  /\ faults + r.injected <= MaxFaults
  /\ faults' = faults + r.injected
  /\ micro_log' = [micro_log EXCEPT ![th[t].lg] = r.ml]
  /\ files' = r.files
  /\ fds' = r.fds
  /\ events' = r.events
  /\ crashed' = r.crashed
  /\ th' = [th EXCEPT ![t] =
              IF r.crashed THEN @
              ELSE IF r.error # MICRO_LOG_OK THEN Fail(@, r.error)
              ELSE Done(@)]
  /\ UNCHANGED <<stdout, now>>

SetFileBody(t) ==
  /\ InBody(t, "set_file")
  /\ \E ml \in {micro_log[th[t].lg]} :
       \E c \in (IF ml.file = NULL THEN {"ok"} ELSE FcloseChoices(files, ml.file)) :
         \E h \in (IF c = "ok"
                     THEN FopenChoices(IF ml.file = NULL THEN files
                                       ELSE [files EXCEPT ![ml.file].open = FALSE])
                     ELSE {NULL}) :
           ApplyBody(t, SetFileResult(ml, files, fds, events, c, h, th[t].arg))

(***************************************************************************)
(* close(fd) on a descriptor > 0.  c is "ok" or "fail" (close returns -1;  *)
(* the descriptor is released all the same).  close on a descriptor that   *)
(* is not open fails with EBADF.                                           *)
(***************************************************************************)
FdOpen(d, fd) == fd \in Fds /\ d[fd].open

CloseChoices(d, fd) ==
  IF FdOpen(d, fd) THEN (IF faults < MaxFaults THEN {"ok", "fail"} ELSE {"ok"})
  ELSE {"fail"}

Close(d, ev, lg, kind, fd, c) ==
  [fds |-> IF FdOpen(d, fd)
             THEN [d EXCEPT ![fd].open = FALSE, ![fd].connected = FALSE]
             ELSE d,
   events |-> IF ~FdOpen(d, fd) THEN ev \cup {"close_closed_fd"}
              ELSE IF d[fd].owner # <<lg, kind>> THEN ev \cup {"close_foreign_fd"}
              ELSE ev,
   injected |-> FdOpen(d, fd) /\ c = "fail",
   result |-> c]

\* socket(): the lowest descriptor that is not open; -1 when the
\* environment makes it fail or none is left
SocketChoices(d) ==
  {fd \in Fds : ~d[fd].open /\ \A x \in Fds : x < fd => d[x].open} \cup
    (IF faults < MaxFaults \/ \A x \in Fds : d[x].open THEN {-1} ELSE {})

Socket(d, fd, lg, kind) ==
  IF fd < 0 THEN d
  ELSE [d EXCEPT ![fd] = [open |-> TRUE, connected |-> FALSE, owner |-> <<lg, kind>>,
                          data |-> <<>>]]

SocketInjected(d, fd) == IF fd < 0 /\ \E x \in Fds : ~d[x].open THEN 1 ELSE 0

ConnectChoices == IF faults < MaxFaults THEN {"ok", "fail"} ELSE {"ok"}

\* micro_log_set_socket_inet2 between its lock and done:
\* (micro-log.h:1120-1168); c is what close does, sfd what socket returns,
\* conn what connect does
SetSocketInetResult(lg, ml, f, d, ev, arg, c, sfd, conn) ==
  LET cl == IF ml.inet_sock_fd > 0 THEN Close(d, ev, lg, "inet", ml.inet_sock_fd, c)
            ELSE [fds |-> d, events |-> ev, injected |-> FALSE, result |-> "ok"]
      ml1 == [ml EXCEPT !.inet_sock_fd = sfd]
      d1 == Socket(cl.fds, sfd, lg, "inet")
  IN IF cl.result = "fail"
       THEN BodyResult(ml, f, cl.fds, cl.events, MICRO_LOG_ERROR_CLOSE_INET_SOCK, FALSE,
                       IF cl.injected THEN 1 ELSE 0)
     ELSE IF arg.protocol \notin {MICRO_LOG_PROTO_TCP, MICRO_LOG_PROTO_UDP}
       THEN BodyResult(ml, f, cl.fds, cl.events, MICRO_LOG_OK, FALSE, 0)
     ELSE IF sfd < 0
       THEN BodyResult(ml1, f, d1, cl.events, MICRO_LOG_ERROR_OPEN_INET_SOCK, FALSE,
                       SocketInjected(cl.fds, sfd))
     ELSE IF ~arg.addrOk
       THEN BodyResult(ml1, f, d1, cl.events, MICRO_LOG_ERROR_INET_ADDR, FALSE, 0)
     ELSE IF conn = "fail"
       THEN BodyResult(ml1, f, d1, cl.events, MICRO_LOG_ERROR_INET_CONNECT, FALSE, 1)
     ELSE BodyResult([ml1 EXCEPT !.out_bitfield = SetBit(@, MICRO_LOG_OUT_SOCK_INET)],
                     f, [d1 EXCEPT ![sfd].connected = TRUE], cl.events,
                     MICRO_LOG_OK, FALSE, 0)

SetSocketInetBody(t) ==
  /\ InBody(t, "set_socket_inet")
  /\ \E ml \in {micro_log[th[t].lg]} :
       \E c \in (IF ml.inet_sock_fd > 0 THEN CloseChoices(fds, ml.inet_sock_fd)
                 ELSE {"ok"}) :
         \E sfd \in (IF c = "ok" /\ th[t].arg.protocol \in
                                      {MICRO_LOG_PROTO_TCP, MICRO_LOG_PROTO_UDP}
                       THEN SocketChoices(
                              IF ml.inet_sock_fd > 0
                                THEN Close(fds, events, th[t].lg, "inet",
                                           ml.inet_sock_fd, c).fds
                                ELSE fds)
                       ELSE {-1}) :
           \E conn \in (IF sfd >= 0 /\ th[t].arg.addrOk THEN ConnectChoices
                        ELSE {"ok"}) :
             ApplyBody(t, SetSocketInetResult(th[t].lg, ml, files, fds, events,
                                              th[t].arg, c, sfd, conn))

\* micro_log_set_socket_unix2 between its lock and done:
\* (micro-log.h:1193-1224)
SetSocketUnixResult(lg, ml, f, d, ev, c, sfd, conn) ==
  LET cl == IF ml.unix_sock_fd > 0 THEN Close(d, ev, lg, "unix", ml.unix_sock_fd, c)
            ELSE [fds |-> d, events |-> ev, injected |-> FALSE, result |-> "ok"]
      ml1 == [ml EXCEPT !.unix_sock_fd = sfd]
      d1 == Socket(cl.fds, sfd, lg, "unix")
  IN IF cl.result = "fail"
       THEN BodyResult(ml, f, cl.fds, cl.events, MICRO_LOG_ERROR_CLOSE_UNIX_SOCK, FALSE,
                       IF cl.injected THEN 1 ELSE 0)
     ELSE IF sfd < 0
       THEN BodyResult(ml1, f, d1, cl.events, MICRO_LOG_ERROR_OPEN_UNIX_SOCK, FALSE,
                       SocketInjected(cl.fds, sfd))
     ELSE IF conn = "fail"
       THEN BodyResult(ml1, f, d1, cl.events, MICRO_LOG_ERROR_UNIX_CONNECT, FALSE, 1)
     ELSE BodyResult([ml1 EXCEPT !.out_bitfield = SetBit(@, MICRO_LOG_OUT_SOCK_UNIX)],
                     f, [d1 EXCEPT ![sfd].connected = TRUE], cl.events,
                     MICRO_LOG_OK, FALSE, 0)

SetSocketUnixBody(t) ==
  /\ InBody(t, "set_socket_unix")
  /\ \E ml \in {micro_log[th[t].lg]} :
       \E c \in (IF ml.unix_sock_fd > 0 THEN CloseChoices(fds, ml.unix_sock_fd)
                 ELSE {"ok"}) :
         \E sfd \in (IF c = "ok"
                       THEN SocketChoices(
                              IF ml.unix_sock_fd > 0
                                THEN Close(fds, events, th[t].lg, "unix",
                                           ml.unix_sock_fd, c).fds
                                ELSE fds)
                       ELSE {-1}) :
           \E conn \in (IF sfd >= 0 THEN ConnectChoices ELSE {"ok"}) :
             ApplyBody(t, SetSocketUnixResult(th[t].lg, ml, files, fds, events,
                                              c, sfd, conn))

\* micro_log_close2 between its lock and done: (micro-log.h:926-956); cf,
\* ci and cu are what fclose and the two close calls do
CloseResult(lg, ml, f, d, ev, cf, ci, cu) ==
  LET r1 == IF ml.file = NULL
              THEN [files |-> f, events |-> ev, injected |-> FALSE, result |-> "ok"]
              ELSE Fclose(f, ev, ml.file, cf)
      r2 == IF ml.inet_sock_fd > 0
              THEN Close(d, r1.events, lg, "inet", ml.inet_sock_fd, ci)
              ELSE [fds |-> d, events |-> r1.events, injected |-> FALSE, result |-> "ok"]
      r3 == IF ml.unix_sock_fd > 0
              THEN Close(r2.fds, r2.events, lg, "unix", ml.unix_sock_fd, cu)
              ELSE [fds |-> r2.fds, events |-> r2.events, injected |-> FALSE,
                    result |-> "ok"]
  IN IF r1.result = "crash"
       THEN BodyResult(ml, r1.files, d, r1.events, MICRO_LOG_OK, TRUE, 0)
     ELSE IF r1.result = "fail"
       THEN BodyResult(ml, r1.files, d, r1.events, MICRO_LOG_ERROR_CLOSE_FILE, FALSE,
                       IF r1.injected THEN 1 ELSE 0)
     ELSE IF r2.result = "fail"
       THEN BodyResult(ml, r1.files, r2.fds, r2.events, MICRO_LOG_ERROR_CLOSE_INET_SOCK,
                       FALSE, IF r2.injected THEN 1 ELSE 0)
     ELSE IF r3.result = "fail"
       THEN BodyResult(ml, r1.files, r3.fds, r3.events, MICRO_LOG_ERROR_CLOSE_UNIX_SOCK,
                       FALSE, IF r3.injected THEN 1 ELSE 0)
     ELSE BodyResult(ml, r1.files, r3.fds, r3.events, MICRO_LOG_OK, FALSE, 0)

CloseBody(t) ==
  /\ InBody(t, "close")
  /\ \E ml \in {micro_log[th[t].lg]} :
       \E cf \in (IF ml.file = NULL THEN {"ok"} ELSE FcloseChoices(files, ml.file)) :
         \E ci \in (IF cf = "ok" /\ ml.inet_sock_fd > 0
                      THEN CloseChoices(fds, ml.inet_sock_fd) ELSE {"ok"}) :
           \E cu \in (IF cf = "ok" /\ ci = "ok" /\ ml.unix_sock_fd > 0
                        THEN CloseChoices(
                               IF ml.inet_sock_fd > 0
                                 THEN Close(fds, events, th[t].lg, "inet",
                                            ml.inet_sock_fd, ci).fds
                                 ELSE fds,
                               ml.unix_sock_fd)
                        ELSE {"ok"}) :
             ApplyBody(t, CloseResult(th[t].lg, ml, files, fds, events, cf, ci, cu))

(***************************************************************************)
(* done: of a mutator: the unlock, then what follows it.                   *)
(*   set_flags2, set_out2          return error                            *)
(*   set_level2, the socket setters log a TRACE record on the logger when  *)
(*                                 error is OK (lines 1039, 1173, 1229)    *)
(*   set_file2                     logs a TRACE record with micro_log_trace,*)
(*                                 that is on the global logger (line 1096) *)
(*   close2                        destroys the mutex (line 962)           *)
(***************************************************************************)
LogsAfter(op) == op \in {"set_level", "set_file", "set_socket_inet", "set_socket_unix"}

MutatorUnlock(t) ==
  /\ ~crashed
  /\ th[t].pc = "m_done"
  /\ micro_log' = [micro_log EXCEPT
                     ![th[t].lg].write_mutex = 0,
                     ![th[t].lg].destroyed = @ \/ th[t].op = "close"]
  /\ events' = UnlockEvents(th[t].lg, t)
  /\ th' = [th EXCEPT ![t] =
              IF LogsAfter(@.op) /\ @.error = MICRO_LOG_OK
                THEN [@ EXCEPT !.pc = "m_log", !.unlocks = @ + 1]
                ELSE [@ EXCEPT !.pc = ReturnPc(th[t]), !.ret = th[t].error,
                               !.unlocks = @ + 1]]
  /\ UNCHANGED <<stdout, files, fds, now, faults, crashed>>

MutatorUnlockFail(t) ==
  /\ ~crashed
  /\ th[t].pc = "m_done"
  /\ UnlockHeld(th[t].lg, t) => faults < MaxFaults
  /\ faults' = IF UnlockHeld(th[t].lg, t) THEN faults + 1 ELSE faults
  /\ events' = UnlockEvents(th[t].lg, t)
  /\ th' = [th EXCEPT ![t].error = MICRO_LOG_ERROR_MUTEX_UNLOCK,
                      ![t].first = IF @ = MICRO_LOG_OK
                                     THEN MICRO_LOG_ERROR_MUTEX_UNLOCK ELSE @,
                      ![t].spin = 1 - @]
  /\ UNCHANGED <<micro_log, stdout, files, fds, now, crashed>>

\* the record a mutator logs once it has unlocked
MutatorLog(t) ==
  /\ ~crashed
  /\ th[t].pc = "m_log"
  /\ th' = [th EXCEPT ![t] =
              CASE @.op = "set_level" ->
                     EnterWrite(@, t, @.lg, MICRO_LOG_LEVEL_TRACE, "micro-log.h", 1040,
                                <<"Set log level to ", "%s">>,
                                <<micro_log_level_string(@.arg, FALSE)>>, "return")
                [] @.op = "set_file" ->
                     EnterWrite(@, t, "global", MICRO_LOG_LEVEL_TRACE, "micro-log.h", 1097,
                                <<"Set output file to \"", "%s", "\"">>, <<@.arg>>,
                                "return")
                [] @.op = "set_socket_inet" ->
                     EnterWrite(@, t, @.lg, MICRO_LOG_LEVEL_TRACE, "micro-log.h", 1174,
                                <<"Set output to inet socket at address \"", "%s",
                                  "\" port ", "%d">>, <<"127.0.0.1", 5000>>, "return")
                [] OTHER ->
                     EnterWrite(@, t, @.lg, MICRO_LOG_LEVEL_TRACE, "micro-log.h", 1230,
                                <<"Set output to unix socket \"", "%s", "\"">>,
                                <<@.arg>>, "return")]
  /\ UNCHANGED <<micro_log, stdout, files, fds, now, faults, events, crashed>>

(***************************************************************************)
(* The state main() leaves before the logger is used: micro_log_init2 on   *)
(* the local logger (micro-log.h:608-632), then possibly set_flags2 and    *)
(* successful calls of set_file2 and the socket setters.  The global       *)
(* logger is a zero-initialised static object (micro-log.h:547).  The      *)
(* sinks record what is written from here on.                              *)
(***************************************************************************)
InitLogger(flags, out, file, inet, unix) ==
  [flags_bitfield |-> flags, out_bitfield |-> out,
   log_level |-> MICRO_LOG_LEVEL_TRACE, file |-> file,
   inet_sock_fd |-> inet, unix_sock_fd |-> unix, write_mutex |-> 0, destroyed |-> FALSE]

\* what main() has set up: the flags, whether a file, whether the sockets
Setups ==
  {[flags |-> MICRO_LOG_FLAG_NONE, file |-> FALSE, socks |-> FALSE],
   [flags |-> MICRO_LOG_FLAG_LEVEL + MICRO_LOG_FLAG_DATE + MICRO_LOG_FLAG_TIME,
    file |-> TRUE, socks |-> FALSE],
   [flags |-> MICRO_LOG_FLAG_LEVEL, file |-> TRUE, socks |-> TRUE]}

InitWith(c) ==
  /\ micro_log =
       [lg \in Loggers |->
          IF lg = "global" THEN InitLogger(MICRO_LOG_FLAG_NONE, 0, NULL, 0, 0)
          ELSE InitLogger(c.flags,
                          MICRO_LOG_OUT_STDOUT
                            + (IF c.file THEN MICRO_LOG_OUT_FILE ELSE 0)
                            + (IF c.socks
                                 THEN MICRO_LOG_OUT_SOCK_INET + MICRO_LOG_OUT_SOCK_UNIX
                                 ELSE 0),
                          IF c.file THEN 1 ELSE NULL,
                          IF c.socks THEN 3 ELSE 0,
                          IF c.socks THEN 4 ELSE 0)]
  /\ files = [h \in Handles |-> [open |-> c.file /\ h = 1, data |-> <<>>, name |-> "out"]]
  /\ fds = [fd \in Fds |->
              [open |-> c.socks /\ fd \in {3, 4}, connected |-> c.socks /\ fd \in {3, 4},
               owner |-> <<"local", IF fd = 4 THEN "unix" ELSE "inet">>, data |-> <<>>]]
  /\ stdout = <<>>
  /\ th = [t \in Threads |-> IdleThread]
  /\ now = 86399
  /\ faults = 0
  /\ events = {}
  /\ crashed = FALSE

Init == \E c \in Setups : InitWith(c)

\* the steps of thread t inside an API call
Step(t) ==
  \/ WriteLock(t)
  \/ WriteLockFail(t)
  \/ WriteEmit(t)
  \/ WriteUnlock(t)
  \/ WriteUnlockFail(t)
  \/ MutatorLock(t)
  \/ MutatorLockFail(t)
  \/ SetLevelBody(t)
  \/ SetFlagsBody(t)
  \/ SetOutBody(t)
  \/ SetFileBody(t)
  \/ SetSocketInetBody(t)
  \/ SetSocketUnixBody(t)
  \/ CloseBody(t)
  \/ MutatorUnlock(t)
  \/ MutatorUnlockFail(t)
  \/ MutatorLog(t)

\* the API calls thread t may make
Call(t) ==
  \/ \E level \in WriteLevels : CallWrite(t, level)
  \/ \E level \in SetLevels : CallSetLevel(t, level)
  \/ \E flags \in FlagChoices : CallSetFlags(t, flags)
  \/ \E out \in OutChoices : CallSetOut(t, out)
  \/ CallSetFile(t)
  \/ \E a \in InetArgs : CallSetSocketInet(t, a.protocol, a.addrOk)
  \/ CallSetSocketUnix(t)
  \/ CallClose(t)

\* one thread uses the logger
Next == Call(1) \/ Step(1)

Spec == Init /\ [][Next]_vars

(***************************************************************************)
(* Several threads share the logger, as in a program that calls            *)
(* micro_log_init2, micro_log_set_flags2(LEVEL), micro_log_set_file2 and   *)
(* micro_log_set_out2(FILE) and then starts its threads; the threads log   *)
(* INFO records, and the last thread also replaces the file.               *)
(***************************************************************************)
InitMT ==
  /\ micro_log =
       [lg \in Loggers |->
          IF lg = "global" THEN InitLogger(MICRO_LOG_FLAG_NONE, 0, NULL, 0, 0)
          ELSE InitLogger(MICRO_LOG_FLAG_LEVEL, MICRO_LOG_OUT_FILE, 1, 0, 0)]
  /\ files = [h \in Handles |-> [open |-> h = 1, data |-> <<>>, name |-> "out"]]
  /\ fds = [fd \in Fds |->
              [open |-> FALSE, connected |-> FALSE, owner |-> <<"local", "inet">>,
               data |-> <<>>]]
  /\ stdout = <<>>
  /\ th = [t \in Threads |-> IdleThread]
  /\ now = 86399
  /\ faults = 0
  /\ events = {}
  /\ crashed = FALSE

NextMT ==
  \E t \in Threads :
    \/ CallWrite(t, MICRO_LOG_LEVEL_INFO)
    \/ (t = NThreads /\ CallSetFile(t))
    \/ WriteLock(t)
    \/ WriteLockFail(t)
    \/ WriteEmit(t)
    \/ WriteUnlock(t)
    \/ WriteUnlockFail(t)
    \/ MutatorLock(t)
    \/ MutatorLockFail(t)
    \/ SetFileBody(t)
    \/ MutatorUnlock(t)
    \/ MutatorUnlockFail(t)
    \/ MutatorLog(t)

SpecMT == InitMT /\ [][NextMT]_vars

(***************************************************************************)
(* One record rendered under every flag set: a program that calls          *)
(* micro_log_init2, micro_log_set_flags2(flags) and micro_log_set_file2,   *)
(* and then writes one record "hello %s" with the argument "world".  The   *)
(* clock reads 2025-01-02 03:04:05 or one second before midnight when the  *)
(* call begins, and may advance while the record is written.  No library   *)
(* call fails here: the environment's budget of failures is spent.         *)
(***************************************************************************)
\* 2025-01-02 03:04:05 as a time_t (see localtime)
FixedClock == 3 * 3600 + 4 * 60 + 5

\* every value of flags_bitfield over the nine flags
RenderFlags == 0..(2 * MICRO_LOG_FLAG_LINE - 1)

\* the levels of the enum that micro_log_write2 accepts
RenderLevels == MICRO_LOG_LEVEL_TRACE..MICRO_LOG_LEVEL_DISABLED

InitRender ==
  /\ \E flags \in RenderFlags :
       micro_log =
         [lg \in Loggers |->
            IF lg = "global" THEN InitLogger(MICRO_LOG_FLAG_NONE, 0, NULL, 0, 0)
            ELSE InitLogger(flags, MICRO_LOG_OUT_STDOUT + MICRO_LOG_OUT_FILE, 1, 0, 0)]
  /\ files = [h \in Handles |-> [open |-> h = 1, data |-> <<>>, name |-> "out"]]
  /\ fds = [fd \in Fds |->
              [open |-> FALSE, connected |-> FALSE, owner |-> <<"local", "inet">>,
               data |-> <<>>]]
  /\ stdout = <<>>
  /\ th = [t \in Threads |-> IdleThread]
  /\ now \in {FixedClock, 86399}
  /\ faults = MaxFaults
  /\ events = {}
  /\ crashed = FALSE

\* micro_log_write2(&local, level, "hello %s", "world"), once
CallRender(t, level) ==
  /\ CanCall(t)
  /\ th[t].calls = 0
  /\ th' = [th EXCEPT ![t] =
              EnterWrite(BeginCall(@, "write", "local", level), t, "local", level,
                         "example.c", 29, <<"hello ", "%s">>, <<"world">>, "return")]
  /\ UNCHANGED <<micro_log, stdout, files, fds, now, faults, events, crashed>>

NextRender ==
  \/ \E level \in RenderLevels : CallRender(1, level)
  \/ WriteLock(1)
  \/ WriteEmit(1)
  \/ WriteUnlock(1)

SpecRender == InitRender /\ [][NextRender]_vars

(***************************************************************************)
(* The settings file (micro_log_from_file2, micro-log.h:653-913).  A line  *)
(* is the string getline returns, its newline included; pos counts from 0  *)
(* as in the code.  Every line of the model ends with a newline, so no     *)
(* scan runs past the end of the string.                                   *)
(***************************************************************************)
\* the size getline gives its buffer (len), larger than every line here
GetlineLen == 120

\* the byte that ends a C string
NUL == "\\0"

\* *(line + pos)
At(line, pos) == IF pos < Len(line) THEN SubSeq(line, pos + 1, pos + 1) ELSE NUL

\* strncmp(line + pos, word, strlen(word)) == 0
StartsWith(line, pos, word) ==
  /\ pos + Len(word) <= Len(line)
  /\ SubSeq(line, pos + 1, pos + Len(word)) = word

RECURSIVE SpacesFrom(_, _, _, _)
SpacesFrom(line, pos, max, spaces) ==
  IF At(line, pos + spaces) \in {" ", "\t"} /\ spaces < max
    THEN SpacesFrom(line, pos, max, spaces + 1)
  ELSE spaces

\* _micro_log_get_spaces(line + pos, max)
_micro_log_get_spaces(line, pos, max) == SpacesFrom(line, pos, max, 0)

RECURSIVE LettersFrom(_, _, _, _)
\* (the scan does not stop at the NUL; a line's newline comes before it)
LettersFrom(line, pos, max, letters) ==
  IF At(line, pos + letters) \notin {" ", "\n", "\t"} /\ letters < max
       /\ pos + letters < Len(line)
    THEN LettersFrom(line, pos, max, letters + 1)
  ELSE letters

\* _micro_log_get_word_len(line + pos, max)
_micro_log_get_word_len(line, pos, max) == LettersFrom(line, pos, max, 0)

\* the keywords of a "level:" line in the order the code tries them
LevelNames ==
  <<[word |-> "trace", level |-> MICRO_LOG_LEVEL_TRACE],
    [word |-> "debug", level |-> MICRO_LOG_LEVEL_DEBUG],
    [word |-> "info", level |-> MICRO_LOG_LEVEL_INFO],
    [word |-> "warn", level |-> MICRO_LOG_LEVEL_WARN],
    [word |-> "error", level |-> MICRO_LOG_LEVEL_ERROR],
    [word |-> "fatal", level |-> MICRO_LOG_LEVEL_FATAL],
    [word |-> "disabled", level |-> MICRO_LOG_LEVEL_DISABLED]>>

\* the keywords of a "flags:" line in the order the code tries them
FlagNames ==
  <<[word |-> "level", flag |-> MICRO_LOG_FLAG_LEVEL],
    [word |-> "date", flag |-> MICRO_LOG_FLAG_DATE],
    [word |-> "time", flag |-> MICRO_LOG_FLAG_TIME],
    [word |-> "pid", flag |-> MICRO_LOG_FLAG_PID],
    [word |-> "tid", flag |-> MICRO_LOG_FLAG_TID],
    [word |-> "json", flag |-> MICRO_LOG_FLAG_JSON],
    [word |-> "color", flag |-> MICRO_LOG_FLAG_COLOR],
    [word |-> "file", flag |-> MICRO_LOG_FLAG_FILE],
    [word |-> "line", flag |-> MICRO_LOG_FLAG_LINE]>>

\* the index of the first entry of names whose word is at line + pos, or 0
FirstMatch(names, line, pos) ==
  IF \E i \in DOMAIN names : StartsWith(line, pos, names[i].word)
    THEN CHOOSE i \in DOMAIN names :
           /\ StartsWith(line, pos, names[i].word)
           /\ \A j \in 1..(i - 1) : ~StartsWith(line, pos, names[j].word)
  ELSE 0

\* a "level:" branch that does not skip the whitespace before the keyword
ParseLevelNoSpaces(line) ==
  IF FirstMatch(LevelNames, line, 6) = 0 THEN -1
  ELSE LevelNames[FirstMatch(LevelNames, line, 6)].level

\* the "level:" branch (micro-log.h:693-729): the level the line names, or
\* -1 for MICRO_LOG_ERROR_UNKNOWN_LEVEL
ParseLevel(line) ==
  LET spaces == _micro_log_get_spaces(line, 6, GetlineLen - 6)
      k == FirstMatch(LevelNames, line, 6 + spaces)
  IN IF k = 0 THEN -1 ELSE LevelNames[k].level

RECURSIVE FlagsLoop(_, _, _)
\* the loop of the "flags:" branch (micro-log.h:735-790) from pos on, flags
\* being the bits matched so far: the flags, or -1 for
\* MICRO_LOG_ERROR_UNKNOWN_FLAG
FlagsLoop(line, pos, flags) ==
  IF pos > GetlineLen THEN flags
  ELSE LET k == FirstMatch(FlagNames, line, pos)
       IN IF k = 0 THEN -1
          ELSE LET p1 == pos + Len(FlagNames[k].word)
                   f1 == SetBit(flags, FlagNames[k].flag)
               IN IF At(line, p1) = "\n" THEN f1
                  ELSE FlagsLoop(line,
                                 p1 + _micro_log_get_spaces(line, p1, GetlineLen - p1),
                                 f1)

\* the "flags:" branch up to the call of micro_log_set_flags2
ParseFlags(line) ==
  FlagsLoop(line, 6 + _micro_log_get_spaces(line, 6, GetlineLen - 6), 0)

\* the "file:" branch (micro-log.h:796-802): the name handed to
\* micro_log_set_file2
ParseFile(line) ==
  LET pos == 5 + _micro_log_get_spaces(line, 5, GetlineLen - 6)
      n == _micro_log_get_word_len(line, pos, GetlineLen - pos)
  IN SubSeq(line, pos + 1, pos + n)

\* the "inet:" branch (micro-log.h:814-875): an error, or the address and
\* the protocol handed to micro_log_set_socket_inet
ParseInet(line) ==
  LET pos1 == 6 + _micro_log_get_spaces(line, 6, GetlineLen - 6)
      addr_len == _micro_log_get_word_len(line, pos1, GetlineLen - pos1)
      pos2 == pos1 + addr_len
      pos3 == pos2 + _micro_log_get_spaces(line, pos2, GetlineLen - pos2)
      port_len == _micro_log_get_word_len(line, pos3, GetlineLen - pos3)
      pos4 == pos3 + port_len
      pos5 == pos4 + _micro_log_get_spaces(line, pos4, GetlineLen - pos4)
      proto_len == _micro_log_get_word_len(line, pos5, GetlineLen - pos5)
      none == [error |-> MICRO_LOG_OK, addr |-> "", port |-> "", protocol |-> 0]
  IN IF addr_len = 0
       THEN [none EXCEPT !.error = MICRO_LOG_ERROR_INVALID_INET_ADDR]
     ELSE IF port_len = 0
       THEN [none EXCEPT !.error = MICRO_LOG_ERROR_INVALID_PORT]
     ELSE IF proto_len = 0
       THEN [none EXCEPT !.error = MICRO_LOG_ERROR_INVALID_PROTOCOL]
     ELSE IF StartsWith(line, pos5, "tcp")
       THEN [error |-> MICRO_LOG_OK, addr |-> SubSeq(line, pos1 + 1, pos2),
             port |-> SubSeq(line, pos3 + 1, pos4), protocol |-> MICRO_LOG_PROTO_TCP]
     ELSE IF StartsWith(line, pos5, "udp")
       THEN [error |-> MICRO_LOG_OK, addr |-> SubSeq(line, pos1 + 1, pos2),
             port |-> SubSeq(line, pos3 + 1, pos4), protocol |-> MICRO_LOG_PROTO_UDP]
     ELSE [none EXCEPT !.error = MICRO_LOG_ERROR_INVALID_PROTOCOL]

\* the "unix:" branch (micro-log.h:885-886): the path handed to
\* micro_log_set_socket_unix2, which is the rest of the line
ParseUnix(line) ==
  LET spaces == _micro_log_get_spaces(line, 5, GetlineLen - 6)
  IN SubSeq(line, 5 + spaces + 1, Len(line))

\* a loop that passes over comments but not over empty lines
DirectiveNoBlank(line) ==
  IF StartsWith(line, 0, "#") THEN [do |-> "next"]
  ELSE IF StartsWith(line, 0, "level:")
    THEN IF ParseLevel(line) < 0
           THEN [do |-> "fail", error |-> MICRO_LOG_ERROR_UNKNOWN_LEVEL]
           ELSE [do |-> "set_level", arg |-> ParseLevel(line)]
  ELSE IF StartsWith(line, 0, "flags:")
    THEN IF ParseFlags(line) < 0
           THEN [do |-> "fail", error |-> MICRO_LOG_ERROR_UNKNOWN_FLAG]
           ELSE [do |-> "set_flags", arg |-> ParseFlags(line)]
  ELSE IF StartsWith(line, 0, "file:")
    THEN [do |-> "set_file", arg |-> ParseFile(line)]
  ELSE IF StartsWith(line, 0, "unix:")
    THEN [do |-> "set_socket_unix", arg |-> ParseUnix(line)]
  ELSE [do |-> "fail", error |-> MICRO_LOG_ERROR_INVALID_FILE_SETTING]

\* what the loop of micro_log_from_file2 does with one line: skip it, fail
\* with an error, or call a mutator
Directive(line) ==
  IF StartsWith(line, 0, "#") \/ StartsWith(line, 0, "\n") THEN [do |-> "next"]
  ELSE IF StartsWith(line, 0, "level:")
    THEN IF ParseLevel(line) < 0
           THEN [do |-> "fail", error |-> MICRO_LOG_ERROR_UNKNOWN_LEVEL]
           ELSE [do |-> "set_level", arg |-> ParseLevel(line)]
  ELSE IF StartsWith(line, 0, "flags:")
    THEN IF ParseFlags(line) < 0
           THEN [do |-> "fail", error |-> MICRO_LOG_ERROR_UNKNOWN_FLAG]
           ELSE [do |-> "set_flags", arg |-> ParseFlags(line)]
  ELSE IF StartsWith(line, 0, "file:")
    THEN [do |-> "set_file", arg |-> ParseFile(line)]
  ELSE IF StartsWith(line, 0, "inet:")
    THEN IF ParseInet(line).error # MICRO_LOG_OK
           THEN [do |-> "fail", error |-> ParseInet(line).error]
           ELSE [do |-> "set_socket_inet", arg |-> ParseInet(line)]
  ELSE IF StartsWith(line, 0, "unix:")
    THEN [do |-> "set_socket_unix", arg |-> ParseUnix(line)]
  ELSE [do |-> "fail", error |-> MICRO_LOG_ERROR_INVALID_FILE_SETTING]

(***************************************************************************)
(* micro_log_from_file2 as steps of the thread.  pc:                       *)
(*   f_line  at the getline of the loop (line 683)                         *)
(*   f_ret   a mutator called for the line at hand has returned            *)
(*   f_done  at done: (line 908)                                           *)
(* The mutators it calls run as the steps of the mutators above.           *)
(***************************************************************************)
\* the addresses inet_pton accepts
ValidAddrs == {"127.0.0.1"}

\* the thread record r calling the mutator op of logger lg from
\* micro_log_from_file2
NestedCall(r, op, lg, arg) ==
  [r EXCEPT !.pc = "m_lock", !.op = op, !.lg = lg, !.arg = arg, !.calls = @ + 1,
            !.error = MICRO_LOG_OK, !.locked = FALSE, !.unlocks = 0,
            !.first = MICRO_LOG_OK, !.spin = 0, !.w = NoWrite]

\* micro_log_from_file2(&local, filename) up to the loop (lines 656-669);
\* lines is what the file holds, opened whether fopen succeeds
CallFromFile(t, lines, opened) ==
  /\ ~crashed
  /\ th[t].pc = "idle"
  /\ th[t].calls = 0
  /\ ~opened => faults < MaxFaults
  /\ faults' = IF opened THEN faults ELSE faults + 1
  /\ th' = [th EXCEPT ![t] =
              LET r == BeginCall(@, "from_file", "local", "settings")
                  p == [NoParse EXCEPT !.active = TRUE, !.lines = lines, !.ln = 1,
                                       !.open = opened,
                                       !.snap = <<micro_log, files, fds>>]
              IN IF opened THEN [r EXCEPT !.pc = "f_line", !.p = p]
                 ELSE [r EXCEPT !.pc = "f_done",
                                !.p = [p EXCEPT !.error = MICRO_LOG_ERROR_OPEN_FILE]]]
  /\ UNCHANGED <<micro_log, stdout, files, fds, now, events, crashed>>

\* one turn of the loop (lines 683-900) up to the call of a mutator, or the
\* fclose that follows the loop (lines 902-906); closed is whether fclose
\* succeeds
FromFileLine(t, closed) ==
  /\ ~crashed
  /\ th[t].pc = "f_line"
  /\ (th[t].p.ln <= Len(th[t].p.lines) \/ faults >= MaxFaults) => closed
  /\ faults' = IF closed THEN faults ELSE faults + 1
  /\ th' = [th EXCEPT ![t] =
              LET p == @.p IN
              IF p.ln > Len(p.lines)
                THEN [@ EXCEPT !.pc = "f_done", !.p.open = FALSE,
                               !.p.error = IF closed THEN MICRO_LOG_OK
                                           ELSE MICRO_LOG_ERROR_CLOSE_FILE]
              ELSE LET d == Directive(p.lines[p.ln])
                       r == [@ EXCEPT !.p.snap = <<micro_log, files, fds>>]
                   IN CASE d.do = "next" -> [r EXCEPT !.p.ln = @ + 1]
                        [] d.do = "fail" ->
                             [r EXCEPT !.pc = "f_done", !.p.error = d.error]
                        [] d.do = "set_socket_inet" ->
                             \* micro_log_set_socket_inet: the global logger
                             NestedCall(r, d.do, "global",
                                        [protocol |-> d.arg.protocol,
                                         addrOk |-> d.arg.addr \in ValidAddrs])
                        [] OTHER -> NestedCall(r, d.do, p.lg, d.arg)]
  /\ UNCHANGED <<micro_log, stdout, files, fds, now, events, crashed>>

\* the mutator has returned: the "level:" branch drops what it returns
\* (lines 699-723), the others go to done: on an error
FromFileReturn(t) ==
  /\ ~crashed
  /\ th[t].pc = "f_ret"
  /\ th' = [th EXCEPT ![t] =
              IF @.op = "set_level" \/ @.ret = MICRO_LOG_OK
                THEN [@ EXCEPT !.pc = "f_line", !.p.ln = @ + 1]
                ELSE [@ EXCEPT !.pc = "f_done", !.p.error = th[t].ret]]
  /\ UNCHANGED <<micro_log, stdout, files, fds, now, faults, events, crashed>>

\* done: (lines 908-912): micro_log_trace, on the global logger, when error
\* is MICRO_LOG_OK
FromFileDone(t) ==
  /\ ~crashed
  /\ th[t].pc = "f_done"
  /\ th' = [th EXCEPT ![t] =
              LET r == [@ EXCEPT !.op = "from_file", !.lg = th[t].p.lg,
                                 !.arg = "settings", !.error = th[t].p.error,
                                 !.p.active = FALSE]
              IN IF r.error = MICRO_LOG_OK
                   THEN EnterWrite([r EXCEPT !.calls = @ + 1], t, "global",
                                   MICRO_LOG_LEVEL_TRACE, "micro-log.h", 911,
                                   <<"Initialized logger from file \"", "%s", "\"">>,
                                   <<"settings">>, "return")
                   ELSE [r EXCEPT !.pc = "idle", !.ret = r.error]]
  /\ UNCHANGED <<micro_log, stdout, files, fds, now, faults, events, crashed>>

\* the records the program writes once the settings are loaded
LoadedLevels == {MICRO_LOG_LEVEL_WARN, MICRO_LOG_LEVEL_INFO}

\* micro_log_write2(&local, level, "hello %s", "world") after a load that
\* returned MICRO_LOG_OK
CallLogged(t, level) ==
  /\ ~crashed
  /\ th[t].pc = "idle"
  /\ th[t].p.lines # <<>>
  /\ th[t].p.error = MICRO_LOG_OK
  /\ Len(th[t].p.after) < MaxCalls
  /\ th' = [th EXCEPT ![t] =
              LET r == [BeginCall(@, "write", "local", level)
                          EXCEPT !.p.after = Append(@, level)]
              IN EnterWrite(r, t, "local", level, "example.c", 29,
                            <<"hello ", "%s">>, <<"world">>, "return")]
  /\ UNCHANGED <<micro_log, stdout, files, fds, now, faults, events, crashed>>

\* the lines a settings file of the model is made of
SettingsLines ==
  {"level: warn\n", "level: warning\n", "level: Warn\n", "level: loud\n",
   "level: error\n", "flags: time\n",
   "flags: level date\n", "flags: date level\n", "flags: level bogus\n",
   "flags: leveldate\n", "file: out.txt\n", "inet: 127.0.0.1  tcp\n",
   "inet: 127.0.0.1 5000 tcp\n", "unix: /tmp/sock\n", "# a comment\n", "\n",
   "colour: on\n"}

\* the longest settings file of the model, in lines
MaxLines == 3

\* the settings files of the model
SettingsFiles ==
  UNION {[1..n -> SettingsLines] : n \in 1..MaxLines}

\* the program has called micro_log_init2 on the local logger, which has
\* written its record to the console; the clock stands at FixedClock
InitFile ==
  /\ micro_log =
       [lg \in Loggers |->
          IF lg = "global" THEN InitLogger(MICRO_LOG_FLAG_NONE, 0, NULL, 0, 0)
          ELSE InitLogger(MICRO_LOG_FLAG_NONE, MICRO_LOG_OUT_STDOUT, NULL, 0, 0)]
  /\ files = [h \in Handles |-> [open |-> FALSE, data |-> <<>>, name |-> ""]]
  /\ fds = [fd \in Fds |->
              [open |-> FALSE, connected |-> FALSE, owner |-> <<"local", "inet">>,
               data |-> <<>>]]
  /\ stdout = <<>>
  /\ th = [t \in Threads |-> IdleThread]
  /\ now = FixedClock
  /\ faults = MaxFaults
  /\ events = {}
  /\ crashed = FALSE

NextFile ==
  \/ (th[1].calls = 0 /\ \E lines \in SettingsFiles : CallFromFile(1, lines, TRUE))
  \/ FromFileLine(1, TRUE)
  \/ FromFileReturn(1)
  \/ FromFileDone(1)
  \/ \E level \in LoadedLevels : CallLogged(1, level)
  \/ MutatorLock(1)
  \/ SetLevelBody(1)
  \/ SetFlagsBody(1)
  \/ SetFileBody(1)
  \/ SetSocketInetBody(1)
  \/ SetSocketUnixBody(1)
  \/ MutatorUnlock(1)
  \/ MutatorLog(1)
  \/ WriteLock(1)
  \/ WriteEmit(1)
  \/ WriteUnlock(1)

SpecFile == InitFile /\ [][NextFile]_vars

(***************************************************************************)
(* A settings file loaded while library calls may fail: fopen and fclose   *)
(* of the settings file, the mutex calls, close, socket, connect and the   *)
(* writes to the sinks.                                                    *)
(***************************************************************************)
\* the lines a settings file is made of here: each is a directive the
\* parser accepts
LoadLines ==
  {"level: error\n", "level: warn\n", "flags: time\n", "file: out.txt\n",
   "inet: 127.0.0.1 5000 tcp\n", "unix: /tmp/sock\n"}

\* the longest of these settings files, in lines
MaxLoadLines == 3

LoadFiles ==
  UNION {[1..n -> LoadLines] : n \in 1..MaxLoadLines}

\* as InitFile, with the failures still to come
InitLoad ==
  /\ micro_log =
       [lg \in Loggers |->
          IF lg = "global" THEN InitLogger(MICRO_LOG_FLAG_NONE, 0, NULL, 0, 0)
          ELSE InitLogger(MICRO_LOG_FLAG_NONE, MICRO_LOG_OUT_STDOUT, NULL, 0, 0)]
  /\ files = [h \in Handles |-> [open |-> FALSE, data |-> <<>>, name |-> ""]]
  /\ fds = [fd \in Fds |->
              [open |-> FALSE, connected |-> FALSE, owner |-> <<"local", "inet">>,
               data |-> <<>>]]
  /\ stdout = <<>>
  /\ th = [t \in Threads |-> IdleThread]
  /\ now = FixedClock
  /\ faults = 0
  /\ events = {}
  /\ crashed = FALSE

NextLoad ==
  \/ (th[1].calls = 0 /\ \E lines \in LoadFiles, opened \in BOOLEAN :
                           CallFromFile(1, lines, opened))
  \/ \E closed \in BOOLEAN : FromFileLine(1, closed)
  \/ FromFileReturn(1)
  \/ FromFileDone(1)
  \/ MutatorLock(1)
  \/ MutatorLockFail(1)
  \/ SetLevelBody(1)
  \/ SetFlagsBody(1)
  \/ SetFileBody(1)
  \/ SetSocketInetBody(1)
  \/ SetSocketUnixBody(1)
  \/ MutatorUnlock(1)
  \/ MutatorUnlockFail(1)
  \/ MutatorLog(1)
  \/ WriteLock(1)
  \/ WriteLockFail(1)
  \/ WriteEmit(1)
  \/ WriteUnlock(1)
  \/ WriteUnlockFail(1)

SpecLoad == InitLoad /\ [][NextLoad]_vars

(***************************************************************************)
(* The life of a logger: micro_log_init2 again, the setters that attach a  *)
(* resource, micro_log_set_level2 and micro_log_close2, in any order, on   *)
(* the logger main() has set up, while library calls may fail.  pc:        *)
(*   i_log   micro_log_init2, after the assignment of the structure and    *)
(*           pthread_mutex_init, before the record it logs (line 630)      *)
(***************************************************************************)
\* an initialization that keeps the threshold the logger had
CallInitKeepLevel(t) ==
  /\ CanCall(t)
  /\ micro_log' = [micro_log EXCEPT
                     !["local"] = [InitLogger(MICRO_LOG_FLAG_NONE, MICRO_LOG_OUT_STDOUT,
                                              NULL, 0, 0)
                                     EXCEPT !.log_level = micro_log["local"].log_level]]
  /\ th' = [th EXCEPT ![t] = [BeginCall(@, "init", "local", 0) EXCEPT !.pc = "i_log"]]
  /\ UNCHANGED <<stdout, files, fds, now, faults, events, crashed>>

\* micro_log_init2(&local) up to its record (micro-log.h:608-628): the
\* structure is assigned whatever it held
CallInit(t) ==
  /\ CanCall(t)
  /\ micro_log' = [micro_log EXCEPT
                     !["local"] = InitLogger(MICRO_LOG_FLAG_NONE, MICRO_LOG_OUT_STDOUT,
                                             NULL, 0, 0)]
  /\ th' = [th EXCEPT ![t] = [BeginCall(@, "init", "local", 0) EXCEPT !.pc = "i_log"]]
  /\ UNCHANGED <<stdout, files, fds, now, faults, events, crashed>>

\* micro_log_write2(micro_log, MICRO_LOG_LEVEL_INFO, "Logger initialized")
\* (line 630); micro_log_init2 returns MICRO_LOG_OK whatever it returns
InitLog(t) ==
  /\ ~crashed
  /\ th[t].pc = "i_log"
  /\ th' = [th EXCEPT ![t] =
              EnterWrite(@, t, "local", MICRO_LOG_LEVEL_INFO, "micro-log.h", 630,
                         <<"Logger initialized">>, <<>>, "return")]
  /\ UNCHANGED <<micro_log, stdout, files, fds, now, faults, events, crashed>>

\* levels handed to micro_log_set_level2: one of the enum's levels, the
\* enum's last enumerator and the value after it
LifeLevels == {MICRO_LOG_LEVEL_WARN, _MICRO_LOG_LEVEL_MAX, _MICRO_LOG_LEVEL_MAX + 1}

NextLife ==
  \/ CallInit(1)
  \/ InitLog(1)
  \/ \E level \in LifeLevels : CallSetLevel(1, level)
  \/ CallSetFile(1)
  \/ \E a \in InetArgs : CallSetSocketInet(1, a.protocol, a.addrOk)
  \/ CallSetSocketUnix(1)
  \/ CallClose(1)
  \/ WriteLock(1)
  \/ WriteLockFail(1)
  \/ WriteEmit(1)
  \/ WriteUnlock(1)
  \/ WriteUnlockFail(1)
  \/ MutatorLock(1)
  \/ MutatorLockFail(1)
  \/ SetLevelBody(1)
  \/ SetFileBody(1)
  \/ SetSocketInetBody(1)
  \/ SetSocketUnixBody(1)
  \/ CloseBody(1)
  \/ MutatorUnlock(1)
  \/ MutatorUnlockFail(1)
  \/ MutatorLog(1)

SpecLife == Init /\ [][NextLife]_vars

(***************************************************************************)
(* The argument checks.  Every function of the local interface tests its   *)
(* logger, and then its other arguments, before anything else; the caller  *)
(* may hand it a null logger, a null string or a level that is not one.    *)
(* A call is the function, the logger ("null": the null pointer) and the   *)
(* arguments a: a.ptr, whether the string argument is not NULL, and        *)
(* a.level.  Prologue is what the function returns from its checks, as a   *)
(* sequence: <<>> when it goes on to its body.                             *)
(***************************************************************************)
NoLogger == "null"

LocalFunctions ==
  {"init", "from_file", "close", "flush", "set_flags", "set_level", "set_out",
   "set_file", "set_socket_inet", "set_socket_unix", "write"}

\* a micro_log_set_level2 that tests the level before the logger
PrologueLevelFirst(op, lg, a) ==
  IF op = "set_level" /\ a.level > _MICRO_LOG_LEVEL_MAX
    THEN <<MICRO_LOG_ERROR_UNKNOWN_LEVEL>>
  ELSE IF lg = NoLogger THEN <<MICRO_LOG_ERROR_LOGGER_NULL>>
  ELSE <<>>

Prologue(op, lg, a) ==
  CASE op = "from_file" ->
         \* micro-log.h:656-659
         IF lg = NoLogger THEN <<MICRO_LOG_ERROR_LOGGER_NULL>>
         ELSE IF ~a.ptr THEN <<MICRO_LOG_ERROR_FROM_FILE_NULL>>
         ELSE <<>>
    [] op = "set_level" ->
         \* micro-log.h:1023-1027
         IF lg = NoLogger THEN <<MICRO_LOG_ERROR_LOGGER_NULL>>
         ELSE IF a.level > _MICRO_LOG_LEVEL_MAX THEN <<MICRO_LOG_ERROR_UNKNOWN_LEVEL>>
         ELSE <<>>
    [] op = "set_socket_inet" ->
         \* micro-log.h:1111-1114
         IF lg = NoLogger THEN <<MICRO_LOG_ERROR_LOGGER_NULL>>
         ELSE IF ~a.ptr THEN <<MICRO_LOG_ERROR_INET_ADDR_NULL>>
         ELSE <<>>
    [] op = "set_socket_unix" ->
         \* micro-log.h:1184-1187
         IF lg = NoLogger THEN <<MICRO_LOG_ERROR_LOGGER_NULL>>
         ELSE IF ~a.ptr THEN <<MICRO_LOG_ERROR_SOCK_PATH_NULL>>
         ELSE <<>>
    [] OTHER ->
         \* micro-log.h:610, 917, 972, 1004, 1047, 1065, 1271
         IF lg = NoLogger THEN <<MICRO_LOG_ERROR_LOGGER_NULL>> ELSE <<>>

\* a call that returns from the checks of its arguments
CallRejected(t, op, lg, a) ==
  /\ CanCall(t)
  /\ Prologue(op, lg, a) # <<>>
  /\ th' = [th EXCEPT ![t] = [BeginCall(@, op, lg, a) EXCEPT !.ret = Prologue(op, lg, a)[1]]]
  /\ UNCHANGED <<micro_log, stdout, files, fds, now, faults, events, crashed>>

\* the arguments handed to the functions
NullArgs == [ptr : BOOLEAN, level : {MICRO_LOG_LEVEL_INFO, _MICRO_LOG_LEVEL_MAX + 1}]

(***************************************************************************)
(* Two threads share the logger of the multithreaded program above; each   *)
(* logs INFO records and makes calls with arguments the checks refuse.  No *)
(* library call fails here.                                                *)
(***************************************************************************)
InitNull ==
  /\ micro_log =
       [lg \in Loggers |->
          IF lg = "global" THEN InitLogger(MICRO_LOG_FLAG_NONE, 0, NULL, 0, 0)
          ELSE InitLogger(MICRO_LOG_FLAG_NONE, MICRO_LOG_OUT_FILE, 1, 0, 0)]
  /\ files = [h \in Handles |-> [open |-> h = 1, data |-> <<>>, name |-> "out"]]
  /\ fds = [fd \in Fds |->
              [open |-> FALSE, connected |-> FALSE, owner |-> <<"local", "inet">>,
               data |-> <<>>]]
  /\ stdout = <<>>
  /\ th = [t \in Threads |-> IdleThread]
  /\ now = 86399
  /\ faults = MaxFaults
  /\ events = {}
  /\ crashed = FALSE

NextNull ==
  \E t \in Threads :
    \/ \E op \in LocalFunctions, lg \in {NoLogger, "local"}, a \in NullArgs :
         CallRejected(t, op, lg, a)
    \/ CallWrite(t, MICRO_LOG_LEVEL_INFO)
    \/ WriteLock(t)
    \/ WriteEmit(t)
    \/ WriteUnlock(t)

SpecNull == InitNull /\ [][NextNull]_vars

(***************************************************************************)
(* Progress.  One thread logs INFO records and sets the flags on the       *)
(* logger main() has set up, while library calls may fail.  The thread is  *)
(* never stopped inside a call: whenever it stands inside one it takes its *)
(* next step.  Nothing obliges pthread_mutex_unlock to succeed.            *)
(***************************************************************************)
StepTerm(t) ==
  \/ WriteLock(t)
  \/ WriteLockFail(t)
  \/ WriteEmit(t)
  \/ WriteUnlock(t)
  \/ WriteUnlockFail(t)
  \/ MutatorLock(t)
  \/ MutatorLockFail(t)
  \/ SetFlagsBody(t)
  \/ MutatorUnlock(t)
  \/ MutatorUnlockFail(t)

NextTerm ==
  \/ CallWrite(1, MICRO_LOG_LEVEL_INFO)
  \/ CallSetFlags(1, MICRO_LOG_FLAG_LEVEL)
  \/ StepTerm(1)

SpecTerm == Init /\ [][NextTerm]_vars /\ WF_vars(StepTerm(1))

(***************************************************************************)
(* The threshold under threads: two threads share the logger of the        *)
(* multithreaded program; each logs INFO records and raises the threshold  *)
(* to FATAL with micro_log_set_level2.  No library call fails here.        *)
(***************************************************************************)
NextGate ==
  \E t \in Threads :
    \/ CallWrite(t, MICRO_LOG_LEVEL_INFO)
    \/ CallSetLevel(t, MICRO_LOG_LEVEL_FATAL)
    \/ WriteLock(t)
    \/ WriteEmit(t)
    \/ WriteUnlock(t)
    \/ MutatorLock(t)
    \/ SetLevelBody(t)
    \/ MutatorUnlock(t)
    \/ MutatorLog(t)

SpecGate == InitNull /\ [][NextGate]_vars

(***************************************************************************)
(* The socket client of tests/unix_client.c: after micro_log_init and a    *)
(* socket setter that connected (lines 11-13), the program enables the     *)
(* socket alone with micro_log_set_out (line 15), logs one record (line    *)
(* 17) and closes the logger (line 19).  The logger is the one every call  *)
(* is handed.  The program may also have set the LEVEL flag, and the       *)
(* socket may be of either kind.  calls numbers the calls from the record  *)
(* on: micro_log_set_out is call 0.  Library calls may fail.               *)
(***************************************************************************)
ClientKinds == {"inet", "unix"}
ClientFlags == {MICRO_LOG_FLAG_NONE, MICRO_LOG_FLAG_LEVEL}
ClientLevels == {MICRO_LOG_LEVEL_INFO, MICRO_LOG_LEVEL_FATAL}

\* the sink kind of a socket kind
KindBit(kind) ==
  IF kind = "inet" THEN MICRO_LOG_OUT_SOCK_INET ELSE MICRO_LOG_OUT_SOCK_UNIX

InitClient ==
  \E kind \in ClientKinds, flags \in ClientFlags :
    /\ micro_log =
         [lg \in Loggers |->
            IF lg = "global" THEN InitLogger(MICRO_LOG_FLAG_NONE, 0, NULL, 0, 0)
            ELSE InitLogger(flags, MICRO_LOG_OUT_STDOUT + KindBit(kind), NULL,
                            IF kind = "inet" THEN 3 ELSE 0,
                            IF kind = "unix" THEN 3 ELSE 0)]
    /\ files = [h \in Handles |-> [open |-> FALSE, data |-> <<>>, name |-> "out"]]
    /\ fds = [fd \in Fds |->
                [open |-> fd = 3, connected |-> fd = 3, owner |-> <<"local", kind>>,
                 data |-> <<>>]]
    /\ stdout = <<>>
    /\ th = [t \in Threads |-> [IdleThread EXCEPT !.calls = -1]]
    /\ now = 86399
    /\ faults = 0
    /\ events = {}
    /\ crashed = FALSE

NextClient ==
  \/ /\ th[1].calls = -1
     /\ \E kind \in ClientKinds :
          /\ HasBit(micro_log["local"].out_bitfield, KindBit(kind))
          /\ CallSetOut(1, KindBit(kind))
  \/ (th[1].calls = 0 /\ \E level \in ClientLevels : CallWrite(1, level))
  \/ (th[1].calls = 1 /\ CallClose(1))
  \/ WriteLock(1)
  \/ WriteLockFail(1)
  \/ WriteEmit(1)
  \/ WriteUnlock(1)
  \/ WriteUnlockFail(1)
  \/ MutatorLock(1)
  \/ MutatorLockFail(1)
  \/ SetOutBody(1)
  \/ CloseBody(1)
  \/ MutatorUnlock(1)
  \/ MutatorUnlockFail(1)

SpecClient == InitClient /\ [][NextClient]_vars

(***************************************************************************)
(* What the sinks hold.                                                    *)
(***************************************************************************)
AllSinkData ==
  {stdout} \cup {files[h].data : h \in Handles} \cup {fds[fd].data : fd \in Fds}

\* some fragment of record rec is in some sink
Written(rec) == \E d \in AllSinkData : \E i \in DOMAIN d : d[i].rec = rec

\* the calls of _micro_log_write_impl made so far that are still on record
WriteCalls == {t \in Threads : th[t].w.rec # <<0, 0>>}

\* the call of _micro_log_write_impl by thread t has returned
Returned(t) ==
  \/ th[t].pc = "idle"
  \/ th[t].pc \in {"m_lock", "m_body", "m_done"} /\ th[t].w.cont = "m_lock"

\* C1: a record whose level is below the threshold the call reads, or that
\* meets the threshold DISABLED, is dropped at once: the call returns
\* MICRO_LOG_OK, no fragment of the record is in any sink, and the call
\* neither acquires nor releases the guard.
C1_SeverityGate ==
  \A t \in WriteCalls :
    LET w == th[t].w
    IN (w.level < w.seen \/ w.seen = MICRO_LOG_LEVEL_DISABLED) =>
         /\ Returned(t)
         /\ ~Written(w.rec)
         /\ ~w.locked
         /\ w.unlocks = 0
         /\ w.error = MICRO_LOG_OK
         /\ th[t].op = "write" => th[t].ret = MICRO_LOG_OK

\* micro_log_write2 of a TRACE record has returned from a logger whose
\* threshold had been raised to INFO
C1_Witness ==
  \E t \in WriteCalls :
    /\ th[t].op = "write"
    /\ th[t].pc = "idle"
    /\ th[t].w.level = MICRO_LOG_LEVEL_TRACE
    /\ th[t].w.seen = MICRO_LOG_LEVEL_INFO

\* the fragments of one record lie next to each other in d
Contiguous(d) ==
  \A i, k \in DOMAIN d :
    (i < k /\ d[i].rec = d[k].rec) => \A j \in i..k : d[j].rec = d[i].rec

\* C2: in the file sink the fragments of one record (envelope, message,
\* terminator) are contiguous: no line is an interleaving of the fragments
\* of two records, however the threads that emit them are scheduled.
C2_WholeLines == \A h \in Handles : Contiguous(files[h].data)

\* thread t is inside a critical section of logger lg: between a lock that
\* succeeded and the unlock that follows it
InCritical(t, lg) ==
  \/ /\ th[t].pc \in {"w_emit", "w_done"}
     /\ th[t].w.lg = lg
     /\ th[t].w.locked
     /\ th[t].w.unlocks = 0
  \/ /\ th[t].pc \in {"m_body", "m_done"}
     /\ th[t].lg = lg
     /\ th[t].locked
     /\ th[t].unlocks = 0

\* C4: at most one thread at a time is inside a critical section of a
\* logger, the critical sections being the record write from its lock to
\* its unlock and the body of every mutator; so no record being written has
\* its sink closed or replaced under it.
C4_MutualExclusion ==
  \A lg \in Loggers : \A t1, t2 \in Threads :
    (InCritical(t1, lg) /\ InCritical(t2, lg)) => t1 = t2

\* the errors the fanout writer returns
SinkErrors ==
  {MICRO_LOG_ERROR_PRINTF_STDOUT, MICRO_LOG_ERROR_PRINTF_FILE,
   MICRO_LOG_ERROR_VPRINTF_SOCK_INET, MICRO_LOG_ERROR_VPRINTF_SOCK_UNIX}

\* the sink kinds in the order of the fanout writer, and those enabled in out
SinkOrder ==
  <<MICRO_LOG_OUT_STDOUT, MICRO_LOG_OUT_FILE, MICRO_LOG_OUT_SOCK_INET,
    MICRO_LOG_OUT_SOCK_UNIX>>

EnabledOrder(out) == SelectSeq(SinkOrder, LAMBDA b : HasBit(out, b))

\* what the resource behind sink kind bit of logger ml holds
SinkData(ml, bit) ==
  CASE bit = MICRO_LOG_OUT_STDOUT -> stdout
    [] bit = MICRO_LOG_OUT_FILE ->
         IF ml.file \in Handles THEN files[ml.file].data ELSE <<>>
    [] bit = MICRO_LOG_OUT_SOCK_INET ->
         IF ml.inet_sock_fd \in Fds THEN fds[ml.inet_sock_fd].data ELSE <<>>
    [] OTHER ->
         IF ml.unix_sock_fd \in Fds THEN fds[ml.unix_sock_fd].data ELSE <<>>

\* the fragments of record rec in d
RecordIn(d, rec) == SelectSeq(d, LAMBDA f : f.rec = rec)

\* l is one line of the record of the call w: fragments in the order of the
\* pipeline, the envelope first, then the message, and one newline, last
OneLine(l, w) ==
  /\ Len(l) >= 2
  /\ \A i \in 1..(Len(l) - 1) : l[i].pp < l[i + 1].pp
  /\ \E i \in DOMAIN l : l[i].pp = PP_MESSAGE /\ l[i].txt = Format(w.fmt, w.args)
  /\ l[Len(l)].pp = PP_NEWLINE
  /\ \A i \in DOMAIN l : l[i].txt = "\n" <=> i = Len(l)

\* the gate lets the record of the call w through
Accepted(w) == w.level >= w.seen /\ w.seen # MICRO_LOG_LEVEL_DISABLED

\* every enabled sink of the logger holds one line of the record of w
LineInEverySink(w) ==
  LET ml == micro_log[w.lg]
      order == EnabledOrder(ml.out_bitfield)
  IN \A i \in DOMAIN order : OneLine(RecordIn(SinkData(ml, order[i]), w.rec), w)

\* the calls of _micro_log_write_impl that have returned to the API's caller
\* with every write of theirs delivered to the attached resource
Delivered ==
  {t \in WriteCalls :
     /\ th[t].pc = "idle"
     /\ th[t].w.cont = "return"
     /\ Accepted(th[t].w)
     /\ th[t].w.first \notin SinkErrors
     /\ ~th[t].w.wild}

WildWrites ==
  {"write_file_null", "write_file_closed", "write_inet_unattached",
   "write_unix_unattached", "write_inet_foreign", "write_unix_foreign"}

\* C5: after any sequence of init2, set_out2, set_file2, the socket setters
\* and record writes (close2 not among them) the fanout writer has never
\* attempted a write on the FILE sink with no open file attached, nor on a
\* socket sink with no connected socket attached.
C5_WriteOnlyIfAttached ==
  (\A lg \in Loggers : ~micro_log[lg].destroyed) => events \cap WildWrites = {}

\* C6: when acquiring the guard fails in the write pipeline, the call
\* returns MICRO_LOG_ERROR_MUTEX_LOCK and no fragment of the record is
\* written to any sink.
C6_LockFailure ==
  \A t \in WriteCalls :
    (th[t].op = "write" /\ th[t].pc = "idle"
       /\ th[t].w.first = MICRO_LOG_ERROR_MUTEX_LOCK) =>
      /\ th[t].ret = MICRO_LOG_ERROR_MUTEX_LOCK
      /\ ~Written(th[t].w.rec)

\* C7: when the fanout write of an envelope fragment fails, no later
\* fragment of the record (envelope, message, JSON terminator, newline) is
\* in any sink, the guard is released, and the call returns the error of
\* that failing write.
C7_EnvelopeFailure ==
  \A t \in WriteCalls :
    LET w == th[t].w
    IN (th[t].op = "write" /\ th[t].pc = "idle"
          /\ w.first \in SinkErrors /\ w.last.pp < PP_MESSAGE) =>
         /\ \A d \in AllSinkData : \A i \in DOMAIN d :
              d[i].rec = w.rec => d[i].pp <= w.last.pp
         /\ \A lg \in Loggers : micro_log[lg].write_mutex # t
         /\ th[t].ret = w.first

\* C8: a call that acquired the guard has released it exactly once when
\* it returns, on the success path and on every failure path, its thread
\* holds no guard, and it returns success or the error of the step that
\* failed first.
C8_ReleaseOnceFirstError ==
  \A t \in Threads :
    (th[t].pc = "idle" /\ th[t].calls > 0) =>
      /\ \A lg \in Loggers : micro_log[lg].write_mutex # t
      /\ th[t].w.locked =>
           /\ th[t].w.unlocks = 1
           /\ th[t].op = "write" => th[t].ret = th[t].w.first
      /\ th[t].locked =>
           /\ th[t].unlocks = 1
           /\ th[t].ret = th[t].first

\* the resource behind sink kind bit of logger lg is attached: an open
\* stream, a connected socket of the logger
Attached(lg, bit) ==
  LET ml == micro_log[lg]
  IN CASE bit = MICRO_LOG_OUT_STDOUT -> TRUE
       [] bit = MICRO_LOG_OUT_FILE -> ml.file \in Handles /\ files[ml.file].open
       [] bit = MICRO_LOG_OUT_SOCK_INET -> SocketAttached(fds, ml.inet_sock_fd, lg, "inet")
       [] OTHER -> SocketAttached(fds, ml.unix_sock_fd, lg, "unix")

\* the calls of _micro_log_write_impl that stand after a call of the fanout writer
AfterFanout ==
  {t \in WriteCalls : th[t].pc \in {"w_emit", "w_done"} /\ th[t].w.last.pp > 0 /\ ~crashed}

\* C9: the fanout writer attempts the enabled sinks in the order STDOUT,
\* FILE, INET socket, UNIX socket, and writes the same fragment to each; at
\* the first sink write that fails it stops: no later sink holds the
\* fragment, the failing sink does not hold it (no retry), and the sinks
\* before it keep it (no undo).  What the sinks hold is compared for the
\* records all of whose writes went to resources attached to the logger.
C9_FanoutOrder ==
  \A t \in AfterFanout :
    LET w == th[t].w
        ml == micro_log[w.lg]
        order == EnabledOrder(ml.out_bitfield)
        k == Len(w.tried)
        failed == w.first \in SinkErrors
    IN /\ k <= Len(order)
       /\ w.tried = SubSeq(order, 1, k)
       /\ IF failed THEN k >= 1 ELSE k = Len(order)
       /\ \A i \in DOMAIN order :
            LET d == SinkData(ml, order[i])
            IN (~w.wild /\ Attached(w.lg, order[i])) =>
                 IF i < k \/ (i = k /\ ~failed)
                   THEN d # <<>> /\ d[Len(d)] = w.last
                   ELSE \A j \in DOMAIN d : d[j] # w.last

\* with the four sinks enabled and attached, the write to the internet
\* socket has failed: the console and the file hold the fragment
C9_Witness ==
  \E t \in AfterFanout :
    /\ th[t].w.first = MICRO_LOG_ERROR_VPRINTF_SOCK_INET
    /\ th[t].w.tried =
         <<MICRO_LOG_OUT_STDOUT, MICRO_LOG_OUT_FILE, MICRO_LOG_OUT_SOCK_INET>>
    /\ HasBit(micro_log[th[t].w.lg].out_bitfield, MICRO_LOG_OUT_SOCK_UNIX)
    /\ \A b \in SinkBits : Attached(th[t].w.lg, b)
    /\ stdout # <<>>
    /\ stdout[Len(stdout)] = th[t].w.last

\* the error kind that names sink kind bit
ErrorOfSink(bit) ==
  CASE bit = MICRO_LOG_OUT_STDOUT -> MICRO_LOG_ERROR_PRINTF_STDOUT
    [] bit = MICRO_LOG_OUT_FILE -> MICRO_LOG_ERROR_PRINTF_FILE
    [] bit = MICRO_LOG_OUT_SOCK_INET -> MICRO_LOG_ERROR_VPRINTF_SOCK_INET
    [] OTHER -> MICRO_LOG_ERROR_VPRINTF_SOCK_UNIX

\* C10: the error of a failed sink write names the sink that failed, with
\* distinct kinds for the console, the file, the internet socket and the
\* unix socket.
C10_SinkSpecificError ==
  \A t \in AfterFanout :
    th[t].w.first \in SinkErrors =>
      th[t].w.first = ErrorOfSink(th[t].w.tried[Len(th[t].w.tried)])


(***************************************************************************)
(* What one rendered record looks like (SpecRender).                       *)
(***************************************************************************)
\* the texts of a sequence of fragments
Texts(l) == [i \in DOMAIN l |-> l[i].txt]

\* the calls of micro_log_write2 that have returned MICRO_LOG_OK with their
\* record past the gate
Rendered ==
  {t \in WriteCalls :
     /\ th[t].pc = "idle"
     /\ th[t].op = "write"
     /\ ~th[t].w.gated
     /\ th[t].ret = MICRO_LOG_OK}

\* the enabled sinks of the logger of the call w, as what each one holds of
\* its record
RecordPerSink(w) ==
  LET ml == micro_log[w.lg]
      order == EnabledOrder(ml.out_bitfield)
  IN [i \in DOMAIN order |-> RecordIn(SinkData(ml, order[i]), w.rec)]

\* the values time(NULL) takes in the model
Instants == ClockValues \cup {FixedClock}

\* str carries an ANSI style
HasStyle(str) == \E i \in 1..Len(str) : SubSeq(str, i, i) = ESC

\* C11: when the flags of the logger contain JSON, with or without COLOR,
\* no fragment of a record that reaches a sink carries a color or bold
\* style, whatever the level: not the level string, not a metadata value,
\* not the message.
C11_JsonSuppressesColor ==
  \A t \in WriteCalls :
    HasBit(micro_log[th[t].w.lg].flags_bitfield, MICRO_LOG_FLAG_JSON) =>
      \A d \in AllSinkData :
        \A i \in DOMAIN d : d[i].rec = th[t].w.rec => ~HasStyle(d[i].txt)

\* a FATAL record has been written whole with JSON, COLOR and every
\* metadata field enabled
C11_Witness ==
  \E t \in Rendered :
    /\ micro_log["local"].flags_bitfield = 2 * MICRO_LOG_FLAG_LINE - 1
    /\ th[t].w.level = MICRO_LOG_LEVEL_FATAL
    /\ \E i \in DOMAIN stdout :
         stdout[i].rec = th[t].w.rec /\ stdout[i].txt = "FATAL"

\* the metadata values of a line, as the numbers of their fields
ValueFields(l) ==
  LET v == SelectSeq(l, LAMBDA f : IsFieldPoint(f.pp) /\ PartOf(f.pp) = 2)
  IN [i \in DOMAIN v |-> FieldOf(v[i].pp)]

\* the metadata fields in the order of the claim, and their JSON keys
C12_Order ==
  <<MICRO_LOG_FLAG_DATE, MICRO_LOG_FLAG_TIME, MICRO_LOG_FLAG_LEVEL, MICRO_LOG_FLAG_PID,
    MICRO_LOG_FLAG_TID, MICRO_LOG_FLAG_FILE, MICRO_LOG_FLAG_LINE>>

\* the fields of C12_Order that flags enables, in that order
EnabledFields(flags) ==
  SelectSeq(<<1, 2, 3, 4, 5, 6, 7>>, LAMBDA i : HasBit(flags, C12_Order[i]))

\* the value fragments of line l are those of the fields fs, in order
FieldsRendered(l, fs, w) ==
  LET v == SelectSeq(l, LAMBDA f : IsFieldPoint(f.pp) /\ PartOf(f.pp) = 2)
  IN /\ Len(v) = Len(fs)
     /\ \A i \in DOMAIN v :
          \E c \in Instants : v[i].txt = FieldValue(fs[i], w, c)

\* C12: for every flag set, the metadata values of a rendered record are
\* those of the enabled fields among DATE, TIME,
\* LEVEL, PID, TID, FILE, LINE, in that order, each once, and no value of a
\* disabled field; the flags being a bit set, the order in which they were
\* enabled plays no part.
C12_FieldOrder ==
  \A t \in Rendered :
    LET w == th[t].w
        ls == RecordPerSink(w)
        fs == EnabledFields(micro_log[w.lg].flags_bitfield)
    IN \A i \in DOMAIN ls :
         /\ ValueFields(ls[i]) = fs
         /\ FieldsRendered(ls[i], fs, w)

\* a record has been written with the seven fields enabled, plain
C12_Witness ==
  \E t \in Rendered :
    /\ micro_log["local"].flags_bitfield =
         2 * MICRO_LOG_FLAG_LINE - 1 - MICRO_LOG_FLAG_JSON - MICRO_LOG_FLAG_COLOR
    /\ ValueFields(RecordIn(stdout, th[t].w.rec)) = <<1, 2, 3, 4, 5, 6, 7>>

\* line l holds the separator before its message
HasSeparator(l) ==
  \E i, j \in DOMAIN l :
    /\ i < j
    /\ l[i].pp = PP_SEPARATOR
    /\ l[i].txt \in {"| ", MICRO_LOG_BOLD("| ")}
    /\ l[j].pp = PP_MESSAGE

\* C13: in plain (non-JSON) mode the separator "| " precedes the message of
\* a rendered record if and only if at least one metadata field (DATE, TIME,
\* LEVEL, PID, TID, FILE, LINE) was emitted for it; with the flags NONE the
\* message is written bare.
C13_SeparatorIffField ==
  \A t \in Rendered :
    LET w == th[t].w
        ls == RecordPerSink(w)
    IN ~HasBit(micro_log[w.lg].flags_bitfield, MICRO_LOG_FLAG_JSON) =>
         \A i \in DOMAIN ls : HasSeparator(ls[i]) <=> ValueFields(ls[i]) # <<>>

\* the date and the time of line l are those of the instant c
DateTimeOf(l, w, c) ==
  \A i \in DOMAIN l :
    /\ (IsFieldPoint(l[i].pp) /\ PartOf(l[i].pp) = 2 /\ FieldOf(l[i].pp) = 1) =>
         l[i].txt = COLOR(w.color, DateString(localtime(c)))
    /\ (IsFieldPoint(l[i].pp) /\ PartOf(l[i].pp) = 2 /\ FieldOf(l[i].pp) = 2) =>
         l[i].txt = COLOR(w.color, TimeString(localtime(c)))

\* C14: when DATE and TIME are both enabled, the date and the time of a
\* rendered record denote one instant of the clock, however the clock
\* advances between the steps of the pipeline.
C14_DateTimeSameInstant ==
  \A t \in Rendered :
    LET w == th[t].w
        ls == RecordPerSink(w)
    IN (/\ HasBit(micro_log[w.lg].flags_bitfield, MICRO_LOG_FLAG_DATE)
        /\ HasBit(micro_log[w.lg].flags_bitfield, MICRO_LOG_FLAG_TIME)) =>
         \A i \in DOMAIN ls : \E c \in Instants : DateTimeOf(ls[i], w, c)

\* C15: no sink ever holds a record whose LEVEL field is DISABLED, whatever
\* MicroLogLevel value micro_log_write2 was called with.
C15_DisabledNeverRendered ==
  \A d \in AllSinkData :
    \A i \in DOMAIN d :
      (IsFieldPoint(d[i].pp) /\ PartOf(d[i].pp) = 2 /\ FieldOf(d[i].pp) = 3) =>
        d[i].txt # "DISABLED"

\* the record of the scenario: INFO, flags {DATE, TIME, LEVEL}, "hello %s"
\* with "world", the clock standing at 2025-01-02 03:04:05 throughout
C16_Scenario ==
  {t \in Threads :
     /\ th[t].pc = "idle"
     /\ th[t].op = "write"
     /\ th[t].calls = 1
     /\ th[t].w.rec = <<t, 1>>
     /\ th[t].w.level = MICRO_LOG_LEVEL_INFO
     /\ th[t].w.fmt = <<"hello ", "%s">>
     /\ th[t].w.args = <<"world">>
     /\ micro_log[th[t].w.lg].log_level <= MICRO_LOG_LEVEL_INFO
     /\ micro_log[th[t].w.lg].flags_bitfield =
          MICRO_LOG_FLAG_DATE + MICRO_LOG_FLAG_TIME + MICRO_LOG_FLAG_LEVEL
     /\ now = FixedClock}

Loaded ==
  {t \in Threads :
     /\ th[t].p.lines # <<>>
     /\ ~th[t].p.active
     /\ th[t].op = "from_file" => th[t].pc = "idle"}

\* the parse of the call of thread t got as far as its line k
Reached(t, k) == k \in DOMAIN th[t].p.lines /\ th[t].p.ln >= k

\* the parse of the call of thread t stopped at its line k with the error err
AbortedAt(t, k, err) == th[t].p.ln = k /\ th[t].p.error = err

RECURSIVE SkipBlanks(_, _)
\* the first position at or after pos that holds no space or tab
SkipBlanks(line, pos) ==
  IF At(line, pos) \in {" ", "\t"} THEN SkipBlanks(line, pos + 1) ELSE pos

RECURSIVE TokenEnd(_, _)
\* the end of the whitespace-separated token that begins at pos
TokenEnd(line, pos) ==
  IF pos >= Len(line) \/ At(line, pos) \in {" ", "\t", "\n"} THEN pos
  ELSE TokenEnd(line, pos + 1)

RECURSIVE TokensFrom(_, _)
\* the whitespace-separated tokens of line from pos on
TokensFrom(line, pos) ==
  LET b == SkipBlanks(line, pos)
      e == TokenEnd(line, b)
  IN IF e = b THEN <<>> ELSE <<SubSeq(line, b + 1, e)>> \o TokensFrom(line, e)

\* the tokens of a line after its directive prefix
Tokens(line, prefix) ==
  IF StartsWith(line, 0, prefix) THEN TokensFrom(line, Len(prefix)) ELSE <<>>

\* the file of the round trip
C17_Settings == <<"level: warn\n", "flags: level date\n", "file: out.txt\n">>

\* the file sink of the local logger is attached to an open file of that name
FileAttached(name) ==
  LET ml == micro_log["local"]
  IN /\ HasBit(ml.out_bitfield, MICRO_LOG_OUT_FILE)
     /\ ml.file \in Handles
     /\ files[ml.file].open
     /\ files[ml.file].name = name

\* C17: loading the lines "level: warn", "flags: level date", "file: out.txt"
\* on an initialized logger returns MICRO_LOG_OK and leaves the threshold
\* WARN, the flags exactly {LEVEL, DATE} and the file sink enabled and
\* attached to out.txt; once a WARN record and an INFO record have been
\* written after it, out.txt holds exactly one line, the WARN one.
C17_RoundTrip ==
  \A t \in Loaded :
    th[t].p.lines = C17_Settings =>
      /\ th[t].p.error = MICRO_LOG_OK
      /\ micro_log["local"].log_level = MICRO_LOG_LEVEL_WARN
      /\ micro_log["local"].flags_bitfield = MICRO_LOG_FLAG_LEVEL + MICRO_LOG_FLAG_DATE
      /\ FileAttached("out.txt")
      /\ (/\ th[t].pc = "idle"
          /\ th[t].p.after \in {<<MICRO_LOG_LEVEL_WARN, MICRO_LOG_LEVEL_INFO>>,
                                <<MICRO_LOG_LEVEL_INFO, MICRO_LOG_LEVEL_WARN>>}) =>
           LET l == files[micro_log["local"].file].data
           IN /\ Len(SelectSeq(l, LAMBDA f : f.txt = "\n")) = 1
              /\ l[Len(l)].txt = "\n"
              /\ \A i \in DOMAIN l : l[i].rec = l[1].rec
              /\ \E i \in DOMAIN l : l[i].txt = "WARN "
              /\ \E i \in DOMAIN l : l[i].txt = "hello world"

\* the round trip is over: the file loaded, then a WARN record and an INFO
\* record written
C17_Witness ==
  \E t \in Loaded :
    /\ th[t].p.lines = C17_Settings
    /\ th[t].pc = "idle"
    /\ th[t].p.after = <<MICRO_LOG_LEVEL_WARN, MICRO_LOG_LEVEL_INFO>>
    /\ FileAttached("out.txt")
    /\ Len(files[micro_log["local"].file].data) = 7

\* the keywords of a "flags:" line and of a "level:" line
FlagKeywords == {"level", "date", "time", "pid", "tid", "json", "color", "file", "line"}
LevelKeywords == {"trace", "debug", "info", "warn", "error", "fatal", "disabled"}

\* the tokens of a sequence that are in none of the keywords
UnknownTokens(toks, keywords) == {i \in DOMAIN toks : toks[i] \notin keywords}

\* the loggers, the files and the descriptors are as they were before the
\* line at which the parse of thread t stopped
NothingApplied(t) == <<micro_log, files, fds>> = th[t].p.snap

\* C18: a "flags:" line with an unknown token makes micro_log_from_file2
\* abort there and return MICRO_LOG_ERROR_UNKNOWN_FLAG: the flags keep the
\* value they had before that line, what the earlier lines did remains, and
\* no later line is applied.
C18_UnknownFlagAborts ==
  \A t \in Loaded : \A k \in DOMAIN th[t].p.lines :
    (/\ Reached(t, k)
     /\ UnknownTokens(Tokens(th[t].p.lines[k], "flags:"), FlagKeywords) # {}) =>
      /\ AbortedAt(t, k, MICRO_LOG_ERROR_UNKNOWN_FLAG)
      /\ th[t].p.error = MICRO_LOG_ERROR_UNKNOWN_FLAG
      /\ NothingApplied(t)

\* C18, as far as the code goes: a parse that stopped with
\* MICRO_LOG_ERROR_UNKNOWN_FLAG stopped at a "flags:" line, applied nothing
\* of that line and of the later ones, and kept what the earlier lines did
C18_DetectedFlagAborts ==
  \A t \in Loaded :
    th[t].p.error = MICRO_LOG_ERROR_UNKNOWN_FLAG =>
      /\ StartsWith(th[t].p.lines[th[t].p.ln], 0, "flags:")
      /\ NothingApplied(t)
      /\ th[t].p.after = <<>>

\* an "inet:" line of an address and a protocol with nothing between them
EmptyPort(line) ==
  LET toks == Tokens(line, "inet:")
  IN Len(toks) = 2 /\ toks[2] \in {"tcp", "udp"}

\* C19: an "inet:" line whose port token is empty makes micro_log_from_file2
\* return MICRO_LOG_ERROR_INVALID_PORT, and no socket is created.
C19_EmptyPortIsInvalidPort ==
  \A t \in Loaded : \A k \in DOMAIN th[t].p.lines :
    (Reached(t, k) /\ EmptyPort(th[t].p.lines[k])) =>
      /\ AbortedAt(t, k, MICRO_LOG_ERROR_INVALID_PORT)
      /\ fds = th[t].p.snap[3]
      /\ micro_log["global"].inet_sock_fd = th[t].p.snap[1]["global"].inet_sock_fd

\* C19, as far as the code goes: the line is refused and no socket is
\* created, whatever the error
C19_EmptyPortRefused ==
  \A t \in Loaded : \A k \in DOMAIN th[t].p.lines :
    (Reached(t, k) /\ EmptyPort(th[t].p.lines[k])) =>
      /\ th[t].p.ln = k
      /\ th[t].p.error # MICRO_LOG_OK
      /\ NothingApplied(t)

\* C20: a "level:" line whose token after the leading whitespace is not
\* exactly one of the keywords makes micro_log_from_file2 return
\* MICRO_LOG_ERROR_UNKNOWN_LEVEL, and the threshold is left unchanged.
C20_ExactLevelKeyword ==
  \A t \in Loaded : \A k \in DOMAIN th[t].p.lines :
    LET line == th[t].p.lines[k]
        toks == Tokens(line, "level:")
    IN (/\ Reached(t, k)
        /\ StartsWith(line, 0, "level:")
        /\ (toks = <<>> \/ toks[1] \notin LevelKeywords)) =>
         /\ AbortedAt(t, k, MICRO_LOG_ERROR_UNKNOWN_LEVEL)
         /\ micro_log[th[t].p.lg].log_level = th[t].p.snap[1][th[t].p.lg].log_level

\* the set of the elements of a sequence
Range(seq) == {seq[i] : i \in DOMAIN seq}

RECURSIVE FlagSetUpTo(_, _)
\* the bits of the first n keywords of FlagNames that are among words
FlagSetUpTo(words, n) ==
  IF n = 0 THEN MICRO_LOG_FLAG_NONE
  ELSE FlagSetUpTo(words, n - 1)
         + (IF FlagNames[n].word \in words THEN FlagNames[n].flag ELSE 0)

\* the flag set a sequence of keywords lists
FlagSetOf(toks) == FlagSetUpTo(Range(toks), Len(FlagNames))

\* the parse of thread t is back at the head of its loop, the line k having
\* been applied and no later line read
JustApplied(t, k) ==
  /\ th[t].p.active
  /\ th[t].pc = "f_line"
  /\ k \in DOMAIN th[t].p.lines
  /\ th[t].p.ln = k + 1

\* C21: a "flags:" line is a list of whitespace-separated keywords up to the
\* end of the line: a line whose tokens are all keywords is accepted and
\* leaves exactly the flags it lists, and a line with a token that is not
\* exactly a keyword (two joined keywords, say) is an unknown-flag error.
C21_FlagsLine ==
  \A t \in Threads : \A k \in DOMAIN th[t].p.lines :
    LET line == th[t].p.lines[k]
        toks == Tokens(line, "flags:")
        known == UnknownTokens(toks, FlagKeywords) = {}
    IN StartsWith(line, 0, "flags:") =>
         /\ JustApplied(t, k) =>
              /\ known
              /\ micro_log[th[t].p.lg].flags_bitfield = FlagSetOf(toks)
         /\ (t \in Loaded /\ Reached(t, k)) =>
              IF known THEN ~(th[t].p.ln = k /\ th[t].p.error # MICRO_LOG_OK)
              ELSE AbortedAt(t, k, MICRO_LOG_ERROR_UNKNOWN_FLAG)

\* C21, as far as the code goes: a "flags:" line made of keywords with
\* whitespace between them, once applied, leaves exactly the flags it lists
C21_KeywordLines ==
  \A t \in Threads : \A k \in DOMAIN th[t].p.lines :
    LET toks == Tokens(th[t].p.lines[k], "flags:")
    IN (/\ JustApplied(t, k)
        /\ StartsWith(th[t].p.lines[k], 0, "flags:")
        /\ UnknownTokens(toks, FlagKeywords) = {}) =>
         micro_log[th[t].p.lg].flags_bitfield = FlagSetOf(toks)

\* a line the parser passes over: a comment or an empty line
Ignored(line) == StartsWith(line, 0, "#") \/ line = "\n"

\* the prefixes of the directives
DirectivePrefixes == {"level:", "flags:", "file:", "inet:", "unix:"}

\* a line that is neither passed over nor a directive
Unrecognized(line) ==
  ~Ignored(line) /\ \A pre \in DirectivePrefixes : ~StartsWith(line, 0, pre)

LevelNamed(line) ==
  LET toks == Tokens(line, "level:")
  IN IF toks # <<>> /\ \E i \in DOMAIN LevelNames : LevelNames[i].word = toks[1]
       THEN LevelNames[CHOOSE i \in DOMAIN LevelNames : LevelNames[i].word = toks[1]].level
       ELSE -1

\* the flags a "flags:" line names: those of its keywords, or -1 when a
\* token of it is no keyword
FlagsNamed(line) ==
  LET toks == Tokens(line, "flags:")
  IN IF UnknownTokens(toks, FlagKeywords) = {} THEN FlagSetOf(toks) ELSE -1

\* the lines of a file that begin with prefix, and the last of them
LinesOf(lines, prefix) == {k \in DOMAIN lines : StartsWith(lines[k], 0, prefix)}
LastOf(lines, prefix) ==
  CHOOSE k \in LinesOf(lines, prefix) : \A j \in LinesOf(lines, prefix) : j <= k

\* C23: after a successful load the threshold is the one the last "level:"
\* line names and the flags are exactly those the last "flags:" line names.
C23_LastDirectiveWins ==
  \A t \in Loaded :
    LET lines == th[t].p.lines
    IN th[t].p.error = MICRO_LOG_OK =>
         /\ LinesOf(lines, "level:") # {} =>
              micro_log[th[t].p.lg].log_level = LevelNamed(lines[LastOf(lines, "level:")])
         /\ LinesOf(lines, "flags:") # {} =>
              micro_log[th[t].p.lg].flags_bitfield = FlagsNamed(lines[LastOf(lines, "flags:")])

\* C23, as far as the code goes: the last "level:" line and the last
\* "flags:" line win whenever their tokens are keywords, whatever the earlier
\* lines of their kind were
C23_LastKeywordLineWins ==
  \A t \in Loaded :
    LET lines == th[t].p.lines
    IN th[t].p.error = MICRO_LOG_OK =>
         /\ (/\ LinesOf(lines, "level:") # {}
             /\ LevelNamed(lines[LastOf(lines, "level:")]) >= 0) =>
              micro_log[th[t].p.lg].log_level = LevelNamed(lines[LastOf(lines, "level:")])
         /\ (/\ LinesOf(lines, "flags:") # {}
             /\ FlagsNamed(lines[LastOf(lines, "flags:")]) >= 0) =>
              micro_log[th[t].p.lg].flags_bitfield = FlagsNamed(lines[LastOf(lines, "flags:")])

(***************************************************************************)
(* The resources of a logger.                                              *)
(***************************************************************************)
\* the socket setters; the sink kind, the field and the name of each
SocketSetters == {"set_socket_inet", "set_socket_unix"}
SocketBit(op) ==
  IF op = "set_socket_inet" THEN MICRO_LOG_OUT_SOCK_INET ELSE MICRO_LOG_OUT_SOCK_UNIX
SocketFd(ml, op) ==
  IF op = "set_socket_inet" THEN ml.inet_sock_fd ELSE ml.unix_sock_fd
SocketKind(op) == IF op = "set_socket_inet" THEN "inet" ELSE "unix"

\* the calls of a socket setter that have returned to the API's caller
SetterReturned ==
  {t \in Threads : th[t].pc = "idle" /\ th[t].op \in SocketSetters}

\* the errors a socket setter reports for a failing library call of its body
SetterErrors(op) ==
  IF op = "set_socket_inet"
    THEN {MICRO_LOG_ERROR_CLOSE_INET_SOCK, MICRO_LOG_ERROR_OPEN_INET_SOCK,
          MICRO_LOG_ERROR_INET_ADDR, MICRO_LOG_ERROR_INET_CONNECT}
    ELSE {MICRO_LOG_ERROR_CLOSE_UNIX_SOCK, MICRO_LOG_ERROR_OPEN_UNIX_SOCK,
          MICRO_LOG_ERROR_UNIX_CONNECT}

\* C24: a socket setter creates, connects and enables its sink as one unit:
\* a call that returns MICRO_LOG_OK leaves its sink kind enabled on a socket
\* it created and connected, and a call in which the attach failed returns
\* an error.
C24_AttachAsUnit ==
  \A t \in SetterReturned :
    LET ml == micro_log[th[t].lg]
    IN th[t].ret = MICRO_LOG_OK =>
         /\ HasBit(ml.out_bitfield, SocketBit(th[t].op))
         /\ SocketAttached(fds, SocketFd(ml, th[t].op), th[t].lg, SocketKind(th[t].op))

\* C24, as far as the code goes: the body of a socket setter adds its sink
\* kind only in a step that leaves a connected socket of the logger in its
\* field and no error, and a body that ends with an error leaves the enabled
\* sinks as they were
C24_EnablesOnlyConnected ==
  [][\A t \in Threads :
       (th[t].pc = "m_body" /\ th[t].op \in SocketSetters /\ th'[t].pc = "m_done") =>
         LET lg == th[t].lg
             bit == SocketBit(th[t].op)
         IN /\ (HasBit(micro_log'[lg].out_bitfield, bit)
                  /\ ~HasBit(micro_log[lg].out_bitfield, bit)) =>
                 /\ th'[t].error = MICRO_LOG_OK
                 /\ SocketAttached(fds', SocketFd(micro_log'[lg], th[t].op), lg,
                                   SocketKind(th[t].op))
            /\ th'[t].error # MICRO_LOG_OK =>
                 /\ th'[t].error \in SetterErrors(th[t].op)
                 /\ micro_log'[lg].out_bitfield = micro_log[lg].out_bitfield]_vars

\* C24, as far as the code goes: a load whose "inet:" or "unix:" line
\* failed in the body of the setter stops at that line, returns the error of
\* the setter and has enabled no sink
C24_DirectiveAborts ==
  \A t \in Loaded : \A k \in DOMAIN th[t].p.lines :
    (/\ th[t].p.ln = k
     /\ th[t].p.open
     /\ th[t].op = "from_file"
     /\ th[t].first \in SetterErrors("set_socket_inet") \cup SetterErrors("set_socket_unix")) =>
      /\ th[t].p.error # MICRO_LOG_OK
      /\ th[t].ret = th[t].p.error
      /\ th[t].p.error \in {th[t].first, MICRO_LOG_ERROR_MUTEX_UNLOCK}
      /\ \A lg \in Loggers :
           micro_log[lg].out_bitfield = th[t].p.snap[1][lg].out_bitfield

\* C24, as far as the code goes: with a protocol of the enum, a call that
\* returns MICRO_LOG_OK leaves its sink kind enabled on a connected socket
C24_KnownProtocolAttach ==
  \A t \in SetterReturned :
    LET ml == micro_log[th[t].lg]
    IN (/\ th[t].ret = MICRO_LOG_OK
        /\ th[t].op = "set_socket_inet" =>
             th[t].arg.protocol \in {MICRO_LOG_PROTO_TCP, MICRO_LOG_PROTO_UDP}) =>
         /\ HasBit(ml.out_bitfield, SocketBit(th[t].op))
         /\ SocketAttached(fds, SocketFd(ml, th[t].op), th[t].lg, SocketKind(th[t].op))

\* the open streams and the open sockets of a kind of the local logger:
\* every stream and socket of the program is one the local logger opened
OpenFiles == {h \in Handles : files[h].open}
OpenSockets(kind) == {fd \in Fds : fds[fd].open /\ fds[fd].owner = <<"local", kind>>}

\* thread t is in no API call
Idle(t) == th[t].pc = "idle"

\* C25: after any sequence of init2, set_file2, socket-setter and close2
\* calls the logger owns at most one open file, one internet socket and one
\* local-domain socket, and none of them is open without being the one the
\* logger refers to.
C25_OneOfEachKind ==
  (\A t \in Threads : Idle(t)) =>
    LET ml == micro_log["local"]
    IN /\ Cardinality(OpenFiles) <= 1
       /\ Cardinality(OpenSockets("inet")) <= 1
       /\ Cardinality(OpenSockets("unix")) <= 1
       /\ \A h \in OpenFiles : ml.file = h
       /\ \A fd \in OpenSockets("inet") : ml.inet_sock_fd = fd
       /\ \A fd \in OpenSockets("unix") : ml.unix_sock_fd = fd

\* C25, as far as the code goes: the body of a setter leaves no stream or
\* socket open that the logger does not refer to, unless it was so before
C25_SettersCloseFirst ==
  [][\A t \in Threads :
       (th[t].pc = "m_body" /\ th[t].op \in {"set_file"} \cup SocketSetters
          /\ th'[t].pc = "m_done") =>
         LET ml0 == micro_log[th[t].lg]
             ml1 == micro_log'[th[t].lg]
         IN /\ \A h \in Handles :
                 (files'[h].open /\ ml1.file # h) => (files[h].open /\ ml0.file # h)
            /\ \A fd \in Fds :
                 (fds'[fd].open /\ fd \notin {ml1.inet_sock_fd, ml1.unix_sock_fd}) =>
                   (fds[fd].open /\ fd \notin {ml0.inet_sock_fd, ml0.unix_sock_fd})]_vars

\* the errors of a failed close of the resource a setter replaces
CloseErrors ==
  {MICRO_LOG_ERROR_CLOSE_FILE, MICRO_LOG_ERROR_CLOSE_INET_SOCK,
   MICRO_LOG_ERROR_CLOSE_UNIX_SOCK}

\* the calls of a setter that attaches a resource which have returned
AttachReturned ==
  {t \in Threads : Idle(t) /\ th[t].op \in {"set_file"} \cup SocketSetters}

\* the resource of the kind the setter op attaches is open
ResourceOpen(ml, op) ==
  IF op = "set_file" THEN ml.file \in Handles /\ files[ml.file].open
  ELSE FdOpen(fds, SocketFd(ml, op))

\* C26: when a setter attaches a new resource and closing the old one
\* fails, the failure is reported and the new file or socket is opened and
\* attached all the same.
C26_CloseFailureDoesNotBlock ==
  \A t \in AttachReturned :
    th[t].first \in CloseErrors =>
      /\ th[t].ret # MICRO_LOG_OK
      /\ ResourceOpen(micro_log[th[t].lg], th[t].op)

\* C26, as far as the code goes: the failure of the close is what the call
\* returns, unless the release of the guard fails after it
C26_CloseFailureReported ==
  \A t \in AttachReturned :
    th[t].first \in CloseErrors =>
      th[t].ret \in {th[t].first, MICRO_LOG_ERROR_MUTEX_UNLOCK}

\* what the model records when a stream or descriptor that is not open is
\* closed, or a descriptor that has become another's
DoubleCloses == {"fclose_closed", "close_closed_fd", "close_foreign_fd"}

\* C27: in any sequence of close2 and setter calls no file handle or socket
\* descriptor is closed more than once.
C27_NoDoubleClose == events \cap DoubleCloses = {}

\* the calls of micro_log_close2 that have returned
CloseReturned == {t \in Threads : Idle(t) /\ th[t].op = "close"}

\* the file and the sockets the logger refers to are closed
AllClosed(ml) ==
  /\ ml.file # NULL => ~files[ml.file].open
  /\ ml.inet_sock_fd > 0 => ~FdOpen(fds, ml.inet_sock_fd)
  /\ ml.unix_sock_fd > 0 => ~FdOpen(fds, ml.unix_sock_fd)

\* C28: when micro_log_close2 returns, every file and socket attached to the
\* logger has been closed, whatever the outcome of closing the others.
C28_CloseClosesAll ==
  \A t \in CloseReturned : AllClosed(micro_log[th[t].lg])

\* C28, as far as the code goes: a micro_log_close2 that returns
\* MICRO_LOG_OK has closed them all
C28_CloseOkClosesAll ==
  \A t \in CloseReturned :
    th[t].ret = MICRO_LOG_OK => AllClosed(micro_log[th[t].lg])

\* the levels of enum MicroLogLevel
Levels == MICRO_LOG_LEVEL_TRACE..MICRO_LOG_LEVEL_DISABLED

\* C29: the threshold of an initialized logger is always one of TRACE,
\* DEBUG, INFO, WARN, ERROR, FATAL, DISABLED, and micro_log_set_level2
\* returns MICRO_LOG_ERROR_UNKNOWN_LEVEL for every other value.
C29_ThresholdValid ==
  /\ micro_log["local"].log_level \in Levels
  /\ \A t \in Threads :
       (Idle(t) /\ th[t].op = "set_level" /\ th[t].arg \notin Levels) =>
         th[t].ret = MICRO_LOG_ERROR_UNKNOWN_LEVEL

\* C29, as far as the code goes: a value above _MICRO_LOG_LEVEL_MAX is
\* refused before the logger is touched, and the threshold never exceeds
\* _MICRO_LOG_LEVEL_MAX
C29_AboveMaxRejected ==
  /\ micro_log["local"].log_level \in MICRO_LOG_LEVEL_TRACE.._MICRO_LOG_LEVEL_MAX
  /\ \A t \in Threads :
       (th[t].op = "set_level" /\ th[t].arg > _MICRO_LOG_LEVEL_MAX) =>
         /\ Idle(t)
         /\ th[t].ret = MICRO_LOG_ERROR_UNKNOWN_LEVEL

\* the calls of micro_log_init2 that have returned
InitReturned == {t \in Threads : Idle(t) /\ th[t].op = "init"}

\* the logger is as micro_log_init2 assigns it
Fresh(ml) ==
  /\ ml.log_level = MICRO_LOG_LEVEL_TRACE
  /\ ml.flags_bitfield = MICRO_LOG_FLAG_NONE
  /\ ml.out_bitfield = MICRO_LOG_OUT_STDOUT
  /\ ml.file = NULL
  /\ ml.inet_sock_fd = 0
  /\ ml.unix_sock_fd = 0

\* the record of the call w is in the console, bare, and nowhere else
BareOnStdout(w, msg) ==
  /\ Texts(RecordIn(stdout, w.rec)) = <<msg, "\n">>
  /\ \A h \in Handles : RecordIn(files[h].data, w.rec) = <<>>
  /\ \A fd \in Fds : RecordIn(fds[fd].data, w.rec) = <<>>

OtherSinksSame(ml0, ml1, bit) ==
  \A b \in SinkBits \ {bit} : HasBit(ml1.out_bitfield, b) = HasBit(ml0.out_bitfield, b)

\* C31: micro_log_set_file2 registers the file sink and touches nothing
\* else: no step of the call changes the threshold, the flags, the sockets or
\* the enabled state of another sink kind, the step of its body that ends
\* without error leaves the FILE sink enabled on the file it has just opened,
\* and no other step of the call changes the enabled sinks or the file.
C31_SetFileFrame ==
  [][\A t \in Threads :
       (th[t].op = "set_file" /\ th[t].pc # "idle") =>
         LET ml0 == micro_log[th[t].lg]
             ml1 == micro_log'[th[t].lg]
         IN /\ ml1.log_level = ml0.log_level
            /\ ml1.flags_bitfield = ml0.flags_bitfield
            /\ ml1.inet_sock_fd = ml0.inet_sock_fd
            /\ ml1.unix_sock_fd = ml0.unix_sock_fd
            /\ OtherSinksSame(ml0, ml1, MICRO_LOG_OUT_FILE)
            /\ (th[t].pc = "m_body" /\ th'[t].pc = "m_done"
                  /\ th'[t].error = MICRO_LOG_OK) =>
                 /\ HasBit(ml1.out_bitfield, MICRO_LOG_OUT_FILE)
                 /\ ml1.file \in Handles
                 /\ files'[ml1.file] = [open |-> TRUE, data |-> <<>>, name |-> th[t].arg]
                 /\ files[ml1.file].open => ml1.file = ml0.file
            /\ th[t].pc # "m_body" =>
                 /\ ml1.out_bitfield = ml0.out_bitfield
                 /\ ml1.file = ml0.file]_vars

\* micro_log_set_file2 has returned MICRO_LOG_OK on a logger that had flags,
\* a file and the two sockets: the file sink is enabled on an open, empty
\* file, the flags and the sockets are those of the setup
C31_Witness ==
  \E t \in Threads :
    LET ml == micro_log["local"]
    IN /\ Idle(t) /\ th[t].op = "set_file" /\ th[t].calls = 1
       /\ th[t].ret = MICRO_LOG_OK
       /\ ml.out_bitfield = MICRO_LOG_OUT_STDOUT + MICRO_LOG_OUT_FILE
                              + MICRO_LOG_OUT_SOCK_INET + MICRO_LOG_OUT_SOCK_UNIX
       /\ ml.flags_bitfield = MICRO_LOG_FLAG_LEVEL
       /\ ml.file \in Handles /\ files[ml.file].open
       /\ ~files[1].open

\* the record of the call w is one line on the sockets the logger has of the
\* kinds in out, and no fragment of it is anywhere else
OnlyOnSockets(w, ml, out) ==
  /\ RecordIn(stdout, w.rec) = <<>>
  /\ \A h \in Handles : RecordIn(files[h].data, w.rec) = <<>>
  /\ \A fd \in Fds :
       IF \/ HasBit(out, MICRO_LOG_OUT_SOCK_INET) /\ fd = ml.inet_sock_fd
          \/ HasBit(out, MICRO_LOG_OUT_SOCK_UNIX) /\ fd = ml.unix_sock_fd
         THEN OneLine(RecordIn(fds[fd].data, w.rec), w)
         ELSE RecordIn(fds[fd].data, w.rec) = <<>>

\* C32, the setter: the body of micro_log_set_out2 makes its argument the
\* enabled sink set and changes nothing else of the logger or its resources,
\* and no other step of the call changes anything but the guard
C32_ReplacesExactly ==
  [][\A t \in Threads :
       (th[t].op = "set_out" /\ th[t].pc # "idle") =>
         LET lg == th[t].lg
         IN /\ <<stdout, files, fds>>' = <<stdout, files, fds>>
            /\ IF th[t].pc = "m_body"
                 THEN /\ th'[t].pc = "m_done" /\ th'[t].error = MICRO_LOG_OK
                      /\ micro_log'[lg] = [micro_log[lg] EXCEPT !.out_bitfield = th[t].arg]
                 ELSE [micro_log'[lg] EXCEPT !.write_mutex = 0]
                        = [micro_log[lg] EXCEPT !.write_mutex = 0]]_vars

\* C32, the client: when no library call fails, the record logged after
\* micro_log_set_out2 with the socket's kind alone is one line on that socket
\* and nowhere else, the write returns MICRO_LOG_OK, and so does the close,
\* the console having received nothing
C32_SocketOnly ==
  \A t \in Threads :
    (Idle(t) /\ faults = 0) =>
      LET ml == micro_log["local"]
      IN /\ th[t].calls >= 0 => th[t].ret = MICRO_LOG_OK
         /\ th[t].calls >= 0 => ml.out_bitfield \in {MICRO_LOG_OUT_SOCK_INET,
                                                     MICRO_LOG_OUT_SOCK_UNIX}
         /\ th[t].calls >= 1 =>
              /\ th[t].w.rec = <<t, th[t].calls>>
              /\ OnlyOnSockets(th[t].w, ml, ml.out_bitfield)
         /\ stdout = <<>>

\* C32: micro_log_set_out2(S) replaces the enabled sink set by exactly S and
\* changes nothing else; after a connected socket is attached and set_out is
\* called with that socket kind alone, a passing record is written to that
\* socket only, and the write and the later close return MICRO_LOG_OK.
C32_SetOut == C32_ReplacesExactly /\ []C32_SocketOnly

\* the client has closed the logger after its record with no failing call:
\* the local-domain socket holds the record and the "Closing logger" record,
\* the console is empty, and the socket is closed
C32_Witness ==
  \E t \in Threads :
    /\ Idle(t) /\ th[t].op = "close" /\ th[t].calls = 2 /\ faults = 0
    /\ th[t].ret = MICRO_LOG_OK
    /\ micro_log["local"].out_bitfield = MICRO_LOG_OUT_SOCK_UNIX
    /\ Texts(fds[3].data) = <<"t1 r1", "\n", "Closing logger", "\n">>
    /\ stdout = <<>>
    /\ ~fds[3].open

(***************************************************************************)
(* The null logger.                                                        *)
(***************************************************************************)
\* C33: every function of the local interface called with a null logger
\* returns MICRO_LOG_ERROR_LOGGER_NULL at once, whatever its other arguments:
\* the call writes to no sink, opens and closes nothing and touches no guard.
C33_NullLogger ==
  [][\A t \in Threads :
       (th'[t].calls # th[t].calls /\ th'[t].lg = NoLogger) =>
         /\ th'[t].op \in LocalFunctions
         /\ th'[t].pc = "idle"
         /\ th'[t].ret = MICRO_LOG_ERROR_LOGGER_NULL
         /\ ~th'[t].locked /\ th'[t].unlocks = 0
         /\ th'[t].w = NoWrite
         /\ UNCHANGED <<micro_log, stdout, files, fds, faults, events, crashed>>]_vars

\* micro_log_set_level2(NULL, _MICRO_LOG_LEVEL_MAX + 1) has returned
\* MICRO_LOG_ERROR_LOGGER_NULL to thread 2 while thread 1 is in the critical
\* section of a record, half of it written
C33_Witness ==
  /\ th[2].pc = "idle" /\ th[2].op = "set_level" /\ th[2].lg = NoLogger
  /\ th[2].arg.level = _MICRO_LOG_LEVEL_MAX + 1
  /\ th[2].ret = MICRO_LOG_ERROR_LOGGER_NULL
  /\ th[1].pc = "w_emit"
  /\ micro_log["local"].write_mutex = 1
  /\ Len(files[1].data) = 1

(***************************************************************************)
(* The loggers of a process.                                               *)
(***************************************************************************)
\* micro_log_global as the program leaves it when it never names it: a
\* zero-initialised static object (micro-log.h:548)
Untouched == InitLogger(MICRO_LOG_FLAG_NONE, 0, NULL, 0, 0)

\* C34: the functions of the local interface act on the logger they are
\* handed only: while the program calls them on its local logger alone, no
\* field of micro_log_global changes, no socket is opened for it, and no
\* record goes through its write pipeline.
C34_Independent ==
  /\ micro_log["global"] = Untouched
  /\ \A fd \in Fds : fds[fd].open => fds[fd].owner[1] # "global"
  /\ \A t \in Threads : th[t].w.lg # "global"

(***************************************************************************)
(* The guard.                                                              *)
(***************************************************************************)
\* C35: every call returns, also when releasing the guard fails, once or
\* every time: a thread inside a call of the write pipeline or of a mutator
\* is eventually back at its caller (or the process was killed).
C35_Terminates ==
  \A t \in Threads : (th[t].pc # "idle") ~> (th[t].pc = "idle" \/ crashed)

\* C35, as far as the code goes: a call in which an unlock failed and that
\* has returned, has returned MICRO_LOG_ERROR_MUTEX_UNLOCK
C35_UnlockFailureReported ==
  \A t \in Threads :
    (Idle(t) /\ MICRO_LOG_ERROR_MUTEX_UNLOCK \in {th[t].error, th[t].w.error}) =>
      th[t].ret = MICRO_LOG_ERROR_MUTEX_UNLOCK

\* C36: no call releases a guard it does not hold: pthread_mutex_unlock is
\* executed only by a thread whose lock of that logger succeeded, and never
\* after a failed lock.
C36_UnlockOnlyIfHeld ==
  /\ "unlock_unheld" \notin events
  /\ \A t \in Threads :
       /\ th[t].w.unlocks > 0 => th[t].w.locked
       /\ th[t].unlocks > 0 => th[t].locked

\* C37: with threads, the gate agrees with the threshold in force when the
\* record is emitted: a record whose critical section runs, or that has a
\* fragment in a sink, has a level the threshold the logger holds during
\* that critical section lets through.
C37_GateUnderLock ==
  \A t \in Threads :
    (th[t].pc \in {"w_emit", "w_done"} /\ th[t].w.locked) =>
      ~Gated(th[t].w.level, micro_log[th[t].w.lg].log_level)

\* C37, as far as the code goes: the record passed the threshold the call
\* read on entry
C37_GateOnEntry ==
  \A t \in Threads :
    (th[t].pc \in {"w_lock", "w_emit", "w_done"}) =>
      ~Gated(th[t].w.level, th[t].w.seen)

(***************************************************************************)
(* The setters on their error paths.                                       *)
(***************************************************************************)
\* the file sink of ml is enabled on a stream that has been closed
FileSinkDangling(ml) ==
  /\ HasBit(ml.out_bitfield, MICRO_LOG_OUT_FILE)
  /\ ml.file # NULL
  /\ ~files[ml.file].open

\* C38: micro_log_set_file2 leaves the file sink usable on error: when it
\* has returned MICRO_LOG_ERROR_OPEN_FILE or MICRO_LOG_ERROR_CLOSE_FILE the
\* FILE sink is not enabled on a file handle that is already closed.
C38_FileSinkUsableOnError ==
  \A t \in Threads :
    (Idle(t) /\ th[t].op = "set_file"
       /\ th[t].ret \in {MICRO_LOG_ERROR_OPEN_FILE, MICRO_LOG_ERROR_CLOSE_FILE}) =>
      ~FileSinkDangling(micro_log[th[t].lg])

\* C39: micro_log_set_socket_inet2 with a protocol that is neither TCP nor
\* UDP returns an error, does not close the internet socket that was
\* attached, does not enable the INET sink and logs no record.  (The call is
\* the thread's first, so the socket attached before it is the one main()
\* attached; no library call has failed.)
C39_UnknownProtocolRefused ==
  \A t \in Threads :
    (/\ Idle(t) /\ th[t].op = "set_socket_inet" /\ th[t].calls = 1
     /\ th[t].arg.protocol \notin {MICRO_LOG_PROTO_TCP, MICRO_LOG_PROTO_UDP}
     /\ faults = 0) =>
      LET ml == micro_log[th[t].lg]
      IN /\ th[t].ret # MICRO_LOG_OK
         /\ ml.inet_sock_fd > 0 => FdOpen(fds, ml.inet_sock_fd)
         /\ HasBit(ml.out_bitfield, MICRO_LOG_OUT_SOCK_INET) => ml.inet_sock_fd > 0
         /\ th[t].w = NoWrite

\* C40: micro_log_from_file2 closes the settings file it opened before it
\* returns, on every path: when the call has returned, with MICRO_LOG_OK or
\* with any error, the settings file is no longer open.
C40_SettingsFileClosed ==
  \A t \in Loaded : ~th[t].p.open

\* C40, as far as the code goes: a load that read every line of the file
\* has closed it
C40_ClosedAfterLastLine ==
  \A t \in Loaded : th[t].p.ln > Len(th[t].p.lines) => ~th[t].p.open
=============================================================================
